---- MODULE Spec2Model ----
(***************************************************************************)
(* MediaGrabber: the job progress / retry / queueing core.                 *)
(*                                                                         *)
(*   TranscodeQueue   backend/app/services/transcode_queue.py              *)
(*   RetryPolicy      backend/app/services/retry_policy.py                 *)
(*   ProgressBus      backend/app/services/progress_bus.py                 *)
(*   OutputManager    backend/app/services/output_manager.py               *)
(*   ProgressStore    backend/app/services/progress_store.py               *)
(*                    (called from one thread, and from several)           *)
(*   REST layer       backend/app/api/downloads.py                         *)
(*   ProgressRenderer backend/app/cli/progress_renderer.py                 *)
(*   DownloadService  backend/app/services/download_service.py             *)
(*                                                                         *)
(* Each component has its own specification (SpecQueue, SpecRetry, ...)    *)
(* over its own variables; the variables of the other components stay at   *)
(* their constructed value.                                                *)
(***************************************************************************)
EXTENDS Integers, Sequences, FiniteSets, TLC

VARIABLES
    \* ---- TranscodeQueue (one event loop, several tasks) ----
    max_workers,      \* TranscodeQueue._max_workers
    sem_value,        \* TranscodeQueue._semaphore._value
    sem_waiters,      \* TranscodeQueue._semaphore._waiters (tasks, FIFO)
    queue_depth,      \* TranscodeQueue._queue_depth
    active_workers,   \* TranscodeQueue._active_workers
    qpc,              \* where each calling task is inside run()/worker_slot()
    qform,            \* which entry point the task used: "run" | "worker_slot"
    qwork,            \* what the task's work() / with-body produced
    qoutcome,         \* what run() / the with-statement handed to its caller
    qsubmitted,       \* number of calls made so far (bounded)
    sem_ready,        \* waiters the event loop has scheduled to run again
                      \* (the loop's ready queue, in call_soon order)
    qwaited,          \* whether the task's acquire() had to wait
    \* ---- RetryPolicy (one policy object, its execute_with_retry calls) ----
    r_max_attempts,   \* RetryPolicy._max_attempts
    r_base_delay,     \* RetryPolicy._base_delay, in ticks
    r_max_delay,      \* RetryPolicy._max_delay, in ticks
    r_attempt_count,  \* RetryPolicy._attempt_count
    r_last_error,     \* RetryPolicy._last_error (an exception id, 0 = None)
    rpc,              \* where each execute_with_retry call is
    r_attempt,        \* the call's loop variable `attempt`
    r_on_retry,       \* whether the call was given an on_retry callback
    r_remedy,         \* the RetryRemedy the call built last
    r_sleep,          \* the backoff the call sleeps for, in ticks
    r_result,         \* what the call returned or raised
    r_invocations,    \* how often the call has invoked work()
    r_failures,       \* how often the call's work() has raised
    r_workval,        \* what the call's work() did last
    r_calls,          \* number of execute_with_retry calls started (bounded)
    r_notified,       \* per call: on_retry(remedy) calls that have returned
    \* ---- ProgressBus (one bus, several threads) ----
    b_ttl,            \* ProgressBus._ttl_seconds
    b_now,            \* what ProgressBus._clock() returns
    b_subscribers,    \* ProgressBus._subscribers
    b_store,          \* ProgressBus._store: job id -> (state, timestamp)
    ppc,              \* where each thread is inside publish()
    p_state,          \* the state the thread is publishing
    p_listeners,      \* rest of the thread's `listeners` still to be called
    p_snapshot,       \* `listeners` as taken under the lock
    p_delivered,      \* callbacks the thread's publish has invoked so far
    b_latest,         \* the latest(job_id) call just made and what it returned
    b_snapshot,       \* the snapshot() call just made and what it returned
    b_lastpub,        \* per job, the state and time of the last publish
    b_pubs,           \* number of publish calls made (bounded)
    \* ---- ProgressBus._lock and the calls callbacks make on the bus ----
    k_lock,           \* the thread holding ProgressBus._lock (0 = free)
    k_call,           \* per thread, the bus call its running callback makes
    k_seen,           \* per thread, what that call returned
    k_overlap,        \* a thread stored a state while another thread's
                      \* callback was running
    \* ---- OutputManager.ensure_free_space, one loop pass at a time ----
    e_pc,             \* where the call is
    e_call,           \* its arguments, `free`, `total_needed`, and the job
                      \* directories at entry
    e_freed,          \* `freed`
    e_evicted,        \* the directories handed to cleanup_job, in order
    e_result,         \* what the call returned
    \* ---- REST layer (one background thread per download job) ----
    t_pc,             \* where each job's thread is in _run_download
    t_status,         \* _jobs[job_id]["status"]
    t_fmt,            \* the requested format
    t_attempt,        \* the attempt of transcode_primary's retry loop
    t_final,          \* the file _apply_transcode returned
    \* ---- OutputManager (job directories under the output root) ----
    d_dirs,           \* names of the job directories that exist
    d_mtime,          \* modification time of each job directory
    d_size,           \* total size of the files in each job directory
    d_free,           \* free bytes of the file system
    d_efs,            \* the ensure_free_space call just made: arguments,
                      \* what it found, deleted and returned
    \* ---- ProgressStore ----
    s_ttl,            \* self._ttl_seconds
    s_now,            \* datetime.now()
    s_keys,           \* the job ids that are keys of self._records
    s_records,        \* self._records[job_id]: sequence of ProgressRecord
    s_serial,         \* number of record() calls made
    s_ret,            \* the query or sweep just made: arguments, the store
                      \* it found and what it returned
    \* ---- ProgressStore called from several threads ----
    x_rpc,            \* where each recording thread is inside record()
    x_rjob,           \* the job id of the state the thread records
    x_calls,          \* number of record() calls started (bounded)
    x_recorded,       \* the records made of the states passed to record()
    x_order,          \* the keys of self._records in insertion order
    x_pc,             \* where the sweeping thread is in cleanup_expired()
    x_now,            \* its `now`
    x_size,           \* size of the dict when its iterator was made
    x_pos,            \* entries its iterator has yielded
    x_job,            \* its `job_id`
    x_valid,          \* its `valid_records`
    x_delete,         \* its `jobs_to_delete`
    \* ---- DownloadService.download_with_retry (one call, one job) ----
    g_pc,             \* where the call is
    g_attempt,        \* `attempt` of the policy's loop
    g_attempt_count,  \* self._retry_policy._attempt_count
    g_last_error,     \* self._retry_policy._last_error (0 = None)
    g_exc,            \* the exception the except clause caught (0 = none)
    g_remedy,         \* the RetryRemedy handed to on_retry
    g_progress,       \* job.progress_percent
    g_retry_count,    \* job.retry_count
    g_published,      \* the states handed to the bus, in order, each with
                      \* the number of attempts started by then
    g_work_published, \* whether the running attempt has published progress
    g_failures,       \* attempts that have failed
    g_succeeded,      \* whether an attempt has returned a result
    g_result,         \* what the call returned or raised
    \* ---- ProgressRenderer (subscribed to the bus) ----
    n_last_percent,   \* ProgressRenderer._last_percent
    n_displayed,      \* the lines render() has written: job id and percent
    n_published,      \* the states handed to publish(): job id and percent
    \* ---- RetryPolicy's pure methods ----
    f_ret             \* the classify_error or calculate_backoff call just
                      \* made: arguments and return value

qvars == <<max_workers, sem_value, sem_waiters, queue_depth, active_workers,
           qpc, qform, qwork, qoutcome, qsubmitted, sem_ready, qwaited>>

rvars == <<r_max_attempts, r_base_delay, r_max_delay, r_attempt_count,
           r_last_error, rpc, r_attempt, r_on_retry, r_remedy, r_sleep,
           r_result, r_invocations, r_failures, r_workval, r_calls,
           r_notified>>

bvars == <<b_ttl, b_now, b_subscribers, b_store, ppc, p_state, p_listeners,
           p_snapshot, p_delivered, b_latest, b_snapshot, b_lastpub,
           b_pubs>>

kvars == <<k_lock, k_call, k_seen, k_overlap>>

evars == <<e_pc, e_call, e_freed, e_evicted, e_result>>

tvars == <<t_pc, t_status, t_fmt, t_attempt, t_final>>

dvars == <<d_dirs, d_mtime, d_size, d_free, d_efs>>

svars == <<s_ttl, s_now, s_keys, s_records, s_serial, s_ret>>

fvars == <<f_ret>>

nvars == <<n_last_percent, n_displayed, n_published>>

gvars == <<g_pc, g_attempt, g_attempt_count, g_last_error, g_exc, g_remedy,
           g_progress, g_retry_count, g_published, g_work_published,
           g_failures, g_succeeded, g_result>>

xvars == <<x_rpc, x_rjob, x_calls, x_recorded, x_order, x_pc, x_now, x_size,
           x_pos, x_job, x_valid, x_delete>>

vars == <<qvars, rvars, bvars, tvars, dvars, svars, fvars, nvars, xvars, gvars,
          kvars, evars>>

\* What an operation of one component leaves alone: the other components.
QFrame == UNCHANGED <<rvars, bvars, tvars, dvars, svars, fvars, nvars, xvars, gvars, kvars, evars>>
RFrame == UNCHANGED <<qvars, bvars, tvars, dvars, svars, fvars, nvars, xvars, gvars, kvars, evars>>
BFrame == UNCHANGED <<qvars, rvars, tvars, dvars, svars, fvars, nvars, xvars, gvars, kvars, evars>>
TFrame == UNCHANGED <<qvars, rvars, bvars, dvars, svars, fvars, nvars, xvars, gvars, kvars, evars>>
DFrame == UNCHANGED <<qvars, rvars, bvars, tvars, svars, fvars, nvars, xvars, gvars, kvars, evars>>
SFrame == UNCHANGED <<qvars, rvars, bvars, tvars, dvars, fvars, nvars, xvars, gvars, kvars, evars>>
FFrame == UNCHANGED <<qvars, rvars, bvars, tvars, dvars, svars, nvars, xvars, gvars, kvars, evars>>
NFrame == UNCHANGED <<qvars, rvars, tvars, dvars, svars, fvars, xvars, gvars, kvars, evars>>
XFrame == UNCHANGED <<qvars, rvars, bvars, tvars, dvars, fvars, nvars, gvars, kvars, evars>>
GFrame == UNCHANGED <<qvars, rvars, tvars, dvars, svars, fvars, nvars, xvars, kvars, evars>>
KFrame == UNCHANGED <<qvars, rvars, tvars, dvars, svars, fvars, nvars, xvars, gvars, evars>>
EFrame == UNCHANGED <<qvars, rvars, bvars, tvars, svars, fvars, nvars, xvars, gvars, kvars>>

None == "none"

(***************************************************************************)
(* Small helpers on sequences.                                             *)
(***************************************************************************)
RECURSIVE SeqRemove(_, _)
SeqRemove(s, x) ==
    IF s = <<>> THEN <<>>
    ELSE IF Head(s) = x THEN SeqRemove(Tail(s), x)
         ELSE <<Head(s)>> \o SeqRemove(Tail(s), x)

(***************************************************************************)
(* TranscodeQueue                                                          *)
(***************************************************************************)
MaxWorkersBound == 2      \* max_workers is drawn from 1..MaxWorkersBound
NumCallers == 3           \* tasks calling run()/worker_slot()
MaxSubmissions == 3       \* total calls made by all tasks

Callers == 1..NumCallers
Forms == {"run", "worker_slot"}
WorkErrors == {"ffmpeg_failed", "disk_full"}
WorkValues == {"result"}
Returned(v) == [kind |-> "returned", val |-> v]
Raised(e) == [kind |-> "raised", val |-> e]
Cancelled == [kind |-> "cancelled", val |-> None]
NoOutcome == [kind |-> "none", val |-> None]
\* What work() (or the body of the with-statement) can end with: a value,
\* an error, or the CancelledError of a cancelled task.
WorkOutcomes == {Returned(v) : v \in WorkValues}
                \cup {Raised(e) : e \in WorkErrors}
                \cup {Cancelled}

\* _enter_queue .. _mark_worker_end: each takes self._lock, which is never
\* held across an await, so on one event loop it is never contended and
\* the four helpers run without suspending.
Buggy_enter_queue(qd) == qd
_enter_queue(qd) == qd + 1
Buggy_leave_queue(qd) == qd
_leave_queue(qd) == qd - 1
Buggy_mark_worker_start(aw) == aw
_mark_worker_start(aw) == aw + 1
Buggy_mark_worker_end(aw) == aw
_mark_worker_end(aw) == aw - 1

\* `try: return await work() finally: await self._mark_worker_end()` and
\* `try: yield self finally: ...`: the finally clause raises nothing, so
\* what work() or the with-body ended with goes on to the caller as it is.
Buggy_Propagate(o) ==
    IF o.kind = "raised" THEN [kind |-> "raised", val |-> "RuntimeError"] ELSE o
Propagate(o) == o

\* asyncio.Semaphore as the queue uses it.  A waiter's future is pending
\* ("waiting"), has its result set ("woken", "woken_cancel": the release
\* handed it the slot but the task has not run yet), or is cancelled
\* ("cancelling": task.cancel() cancelled the future, the task has not run
\* yet).
FutPending(pc, c) == pc[c] = "waiting"
FutCancelled(pc, c) == pc[c] = "cancelling"

\* Semaphore.locked()
Buggy_locked(value, waiters, pc) == FALSE
locked(value, waiters, pc) ==
    value = 0 \/ \E i \in 1..Len(waiters) : ~FutCancelled(pc, waiters[i])

\* Semaphore._wake_up_next(): the first waiter whose future is not done
\* gets the slot.
Buggy_FirstPending(waiters, pc) ==
    LET idx == {i \in 1..Len(waiters) : FutPending(pc, waiters[i])}
    IN IF idx = {} THEN 0 ELSE CHOOSE i \in idx : \A j \in idx : i >= j
FirstPending(waiters, pc) ==
    LET idx == {i \in 1..Len(waiters) : FutPending(pc, waiters[i])}
    IN IF idx = {} THEN 0 ELSE CHOOSE i \in idx : \A j \in idx : i <= j

Buggy_wake_up_next(value, waiters, pc) == [value |-> value, pc |-> pc]
_wake_up_next(value, waiters, pc) ==
    LET i == FirstPending(waiters, pc)
    IN IF i = 0 THEN [value |-> value, pc |-> pc]
       ELSE [value |-> value - 1,
             pc |-> [pc EXCEPT ![waiters[i]] = "woken"]]

\* Future.set_result() and Future.cancel() schedule the waiting task with
\* loop.call_soon: the tasks run again in the order they were scheduled.
call_soon(ready, pc_before, pc_after) ==
    LET scheduled == {c \in Callers :
                        /\ pc_before[c] = "waiting"
                        /\ pc_after[c] \in {"woken", "cancelling"}}
    IN IF scheduled = {} THEN ready
       ELSE Append(ready, CHOOSE c \in scheduled : TRUE)

\* Semaphore.release()
Buggy_release(value, waiters, pc) == _wake_up_next(value, waiters, pc)
release(value, waiters, pc) == _wake_up_next(value + 1, waiters, pc)

DefaultMaxWorkers == 2    \* TranscodeQueue(max_workers=2)

QConstructed(n) ==
    /\ max_workers = n
    /\ sem_value = max_workers
    /\ sem_waiters = <<>>
    /\ queue_depth = 0
    /\ active_workers = 0
    /\ qpc = [c \in Callers |-> "idle"]
    /\ qform = [c \in Callers |-> None]
    /\ qwork = [c \in Callers |-> NoOutcome]
    /\ qoutcome = [c \in Callers |-> NoOutcome]
    /\ qsubmitted = 0
    /\ sem_ready = <<>>
    /\ qwaited = [c \in Callers |-> FALSE]

QInit == \E n \in 1..MaxWorkersBound : QConstructed(n)
\* The queue of a process that is looking at another component.
QUnused == QConstructed(DefaultMaxWorkers)

\* A task calls run(work) or enters `async with worker_slot()`: it runs
\* _enter_queue and Semaphore.acquire up to the first suspension.  With a
\* free slot it goes straight through _leave_queue and
\* _mark_worker_start into work(); otherwise it is appended to the
\* semaphore's waiters and suspends.
EnterQueue(c, form) ==
    /\ qpc[c] = "idle"
    /\ qform' = [qform EXCEPT ![c] = form]
    /\ qwork' = [qwork EXCEPT ![c] = NoOutcome]
    /\ qoutcome' = [qoutcome EXCEPT ![c] = NoOutcome]
    /\ IF ~locked(sem_value, sem_waiters, qpc)
       THEN /\ sem_value' = sem_value - 1
            /\ queue_depth' = _leave_queue(_enter_queue(queue_depth))
            /\ active_workers' = _mark_worker_start(active_workers)
            /\ qpc' = [qpc EXCEPT ![c] = "working"]
            /\ qwaited' = [qwaited EXCEPT ![c] = FALSE]
            /\ UNCHANGED sem_waiters
       ELSE /\ queue_depth' = _enter_queue(queue_depth)
            /\ sem_waiters' = Append(sem_waiters, c)
            /\ qpc' = [qpc EXCEPT ![c] = "waiting"]
            /\ qwaited' = [qwaited EXCEPT ![c] = TRUE]
            /\ UNCHANGED <<sem_value, active_workers>>
    /\ UNCHANGED <<max_workers, sem_ready>>
    /\ QFrame

\* The calls are counted up to MaxSubmissions.
QEnter(c, form) ==
    /\ qsubmitted < MaxSubmissions
    /\ qsubmitted' = qsubmitted + 1
    /\ EnterQueue(c, form)

\* Calls made after that are not counted: tasks may call for ever.
QEnterAgain(c, form) ==
    /\ qsubmitted = MaxSubmissions
    /\ UNCHANGED qsubmitted
    /\ EnterQueue(c, form)

\* A woken waiter runs again: acquire() removes its future, passes a
\* spare slot on, and returns; the task goes through _leave_queue and
\* _mark_worker_start into work().
QResume(c) ==
    /\ qpc[c] = "woken"
    /\ sem_ready # <<>> /\ Head(sem_ready) = c
    /\ LET ws == SeqRemove(sem_waiters, c)
           w == IF sem_value > 0
                THEN _wake_up_next(sem_value, ws, qpc)
                ELSE [value |-> sem_value, pc |-> qpc]
       IN /\ sem_waiters' = ws
          /\ sem_value' = w.value
          /\ qpc' = [w.pc EXCEPT ![c] = "working"]
          /\ sem_ready' = call_soon(Tail(sem_ready), qpc, w.pc)
    /\ queue_depth' = _leave_queue(queue_depth)
    /\ active_workers' = _mark_worker_start(active_workers)
    /\ UNCHANGED <<max_workers, qform, qwork, qoutcome, qsubmitted, qwaited>>
    /\ QFrame

\* work() (or the with-body) ends with outcome o, a CancelledError of the
\* task included: the finally clause runs _mark_worker_end, the semaphore
\* is released, and o goes on to the caller unchanged.
QWorkEnds(c, o) ==
    /\ qpc[c] = "working"
    /\ active_workers' = _mark_worker_end(active_workers)
    /\ LET r == release(sem_value, sem_waiters, qpc)
       IN /\ sem_value' = r.value
          /\ qpc' = [r.pc EXCEPT ![c] = "done"]
          /\ sem_ready' = call_soon(sem_ready, qpc, r.pc)
    /\ qwork' = [qwork EXCEPT ![c] = o]
    /\ qoutcome' = [qoutcome EXCEPT ![c] = Propagate(o)]
    /\ qwaited' = [qwaited EXCEPT ![c] = FALSE]
    /\ UNCHANGED <<max_workers, sem_waiters, queue_depth, qform, qsubmitted>>
    /\ QFrame

\* task.cancel() on a task suspended in Semaphore.acquire: a pending
\* future is cancelled at once; a future whose result is already set
\* cannot be, and the task is marked to be cancelled when it next runs.
QCancelRequest(c) ==
    /\ qpc[c] \in {"waiting", "woken"}
    /\ qpc' = [qpc EXCEPT ![c] = IF qpc[c] = "waiting" THEN "cancelling"
                                                       ELSE "woken_cancel"]
    /\ sem_ready' = call_soon(sem_ready, qpc, qpc')
    /\ UNCHANGED <<max_workers, sem_value, sem_waiters, queue_depth,
                   active_workers, qform, qwork, qoutcome, qsubmitted,
                   qwaited>>
    /\ QFrame

\* The cancelled task runs: acquire() removes its future and raises
\* CancelledError (giving back a slot it had been handed).  The error
\* leaves `async with self._semaphore` before its body, so neither
\* _leave_queue nor anything else of run()/worker_slot() runs.
QCancelDeliver(c) ==
    /\ qpc[c] \in {"cancelling", "woken_cancel"}
    /\ sem_ready # <<>> /\ Head(sem_ready) = c
    /\ LET ws == SeqRemove(sem_waiters, c)
           w == IF qpc[c] = "woken_cancel"
                THEN _wake_up_next(sem_value + 1, ws, qpc)
                ELSE [value |-> sem_value, pc |-> qpc]
       IN /\ sem_waiters' = ws
          /\ sem_value' = w.value
          /\ qpc' = [w.pc EXCEPT ![c] = "done"]
          /\ sem_ready' = call_soon(Tail(sem_ready), qpc, w.pc)
    /\ qoutcome' = [qoutcome EXCEPT ![c] = Cancelled]
    /\ UNCHANGED <<max_workers, queue_depth, active_workers, qform, qwork,
                   qsubmitted, qwaited>>
    /\ QFrame

\* The caller has its result; the task may call the queue again.
QReturn(c) ==
    /\ qpc[c] = "done"
    /\ qpc' = [qpc EXCEPT ![c] = "idle"]
    /\ qform' = [qform EXCEPT ![c] = None]
    /\ qwork' = [qwork EXCEPT ![c] = NoOutcome]
    /\ qoutcome' = [qoutcome EXCEPT ![c] = NoOutcome]
    /\ UNCHANGED <<max_workers, sem_value, sem_waiters, queue_depth,
                   active_workers, qsubmitted, sem_ready, qwaited>>
    /\ QFrame

\* task.cancel() while calls are still counted, so that cancellations are
\* not more than the calls counted.
QCancelEarly(c) ==
    /\ qsubmitted < MaxSubmissions
    /\ QCancelRequest(c)

(***************************************************************************)
(* TranscodeQueue: properties                                              *)
(***************************************************************************)
\* Tasks inside run()/worker_slot() that have not got past acquire().
QWaitingSet == {c \in Callers :
                  qpc[c] \in {"waiting", "cancelling", "woken", "woken_cancel"}}
\* Tasks inside the gate: running work() or the with-body.
QWorkingSet == {c \in Callers : qpc[c] = "working"}
\* Tasks the semaphore has given a slot to.
QHoldingSet == {c \in Callers : qpc[c] \in {"working", "woken", "woken_cancel"}}
NumWaiting == Cardinality(QWaitingSet)
NumWorking == Cardinality(QWorkingSet)
QQuiescent == \A c \in Callers : qpc[c] \in {"idle", "done"}

\* C1: with max_workers = N, in every reachable state at most N units of
\* work are inside the gate and active_workers <= N, whatever mix of run()
\* and worker_slot() the callers use; an (N+1)-th caller is not inside the
\* gate while N others are.
C1_AtMostMaxWorkers ==
    /\ NumWorking <= max_workers
    /\ active_workers <= max_workers

\* C1 witness: the gate is full, with both entry points in use, and one
\* more caller is kept waiting.
C1_Witness ==
    /\ NumWorking = max_workers
    /\ \E c \in Callers : qpc[c] = "waiting"
    /\ \E c, d \in Callers : qform[c] = "run" /\ qform[d] = "worker_slot"

\* C6: at every observable point queue_depth is the number of callers that
\* entered and have not yet acquired a slot, and active_workers is the
\* number of callers holding a slot.
C6_CountersMatchCallers ==
    /\ queue_depth = NumWaiting
    /\ active_workers = NumWorking

\* C7: when a caller is cancelled while it waits for a slot, queue_depth
\* is decremented for it.
C7_CancelWhileWaitingLeavesQueue ==
    [][\A c \in Callers :
         (qpc[c] \in {"cancelling", "woken_cancel"} /\ qpc'[c] = "done")
            => queue_depth' = queue_depth - 1]_vars

\* C8: when work() or the with-body raises, the caller gets that same
\* error, active_workers is decremented and the slot is freed: the slots
\* not held by a caller are available (so all max_workers are when no
\* caller is inside), after any number of failing units of work.
C8_FailureReleasesSlot ==
    /\ \A c \in Callers :
         (qpc[c] = "done" /\ qwork[c].kind = "raised") => qoutcome[c] = qwork[c]
    /\ active_workers = NumWorking
    /\ sem_value + Cardinality(QHoldingSet) = max_workers
    /\ QQuiescent => (sem_value = max_workers /\ active_workers = 0)

\* C8 witness: two units of work have failed, one in run() and one in
\* worker_slot(), nobody is inside, and every slot is free again.
C8_Witness ==
    /\ QQuiescent
    /\ \E c, d \in Callers :
         /\ c # d
         /\ qpc[c] = "done" /\ qoutcome[c] = Raised("disk_full")
         /\ qform[c] = "run"
         /\ qpc[d] = "done" /\ qoutcome[d] = Raised("ffmpeg_failed")
         /\ qform[d] = "worker_slot"
    /\ sem_value = max_workers
    /\ active_workers = 0

\* The place of a waiting caller in the semaphore's waiters
WaiterIndex(c) == CHOOSE i \in 1..Len(sem_waiters) : sem_waiters[i] = c

\* C25: callers blocked on a full queue are admitted in arrival order:
\* when a caller that had to wait gets past acquire(), no caller that
\* entered before it is still waiting for a slot (a waiter that has been
\* cancelled is never admitted and is passed over).
C25_AdmittedInArrivalOrder ==
    [][\A c \in Callers :
         QResume(c) =>
            \A i \in 1..(WaiterIndex(c) - 1) :
                qpc[sem_waiters[i]] \in {"cancelling", "woken_cancel"}]_vars

\* C25 witness: two callers had to wait; the one that entered first has
\* been admitted and the other is still among the waiters.
C25_Witness ==
    \E a, b \in Callers :
        /\ a # b
        /\ qwaited[a] /\ qpc[a] = "working"
        /\ qwaited[b] /\ qpc[b] \in {"waiting", "woken"}
        /\ sem_waiters = <<b>>

\* The tasks that call the queue for ever
FairCallers == {1, 2, 3}

\* C40: every caller of run() or worker_slot() that has to wait
\* eventually gets a slot and starts its work, unless it is cancelled
\* itself, when every admitted unit of work eventually ends and the event
\* loop runs the tasks it has scheduled; this whatever calls arrive later,
\* for ever.
C40_EveryWaiterIsAdmitted ==
    \A c \in FairCallers :
        (qpc[c] = "waiting")
            ~> (qpc[c] \in {"working", "cancelling", "woken_cancel"})

\* C40 witness: with calls still arriving beyond those counted, a caller
\* that had to wait is at work while another waits behind it.
C40_Witness ==
    /\ qsubmitted = MaxSubmissions
    /\ \E a, b \in FairCallers :
          /\ a # b
          /\ qwaited[a] /\ qpc[a] = "working"
          /\ qpc[b] = "waiting"
          /\ queue_depth > 0

(***************************************************************************)
(* RetryPolicy                                                             *)
(***************************************************************************)
MaxAttemptsBound == 3     \* max_attempts is drawn from 1..MaxAttemptsBound
NumRetryCalls == 2        \* execute_with_retry calls that may be in flight
MaxRetryCalls == 2        \* total execute_with_retry calls started
TicksPerSecond == 2       \* resolution of the delays (ticks per second)

RCalls == 1..NumRetryCalls

\* str.lower() on the characters the messages use.
LowerMap ==
    "A" :> "a" @@
    "B" :> "b" @@
    "C" :> "c" @@
    "D" :> "d" @@
    "E" :> "e" @@
    "F" :> "f" @@
    "G" :> "g" @@
    "H" :> "h" @@
    "I" :> "i" @@
    "J" :> "j" @@
    "K" :> "k" @@
    "L" :> "l" @@
    "M" :> "m" @@
    "N" :> "n" @@
    "O" :> "o" @@
    "P" :> "p" @@
    "Q" :> "q" @@
    "R" :> "r" @@
    "S" :> "s" @@
    "T" :> "t" @@
    "U" :> "u" @@
    "V" :> "v" @@
    "W" :> "w" @@
    "X" :> "x" @@
    "Y" :> "y" @@
    "Z" :> "z"
LowerChar(ch) == IF ch \in DOMAIN LowerMap THEN LowerMap[ch] ELSE ch
lower(str) == [i \in 1..Len(str) |-> LowerChar(str[i])]

\* `needle in hay` on strings, as sequences of characters.
Contains(hay, needle) ==
    \E i \in 1..(Len(hay) - Len(needle) + 1) :
        SubSeq(hay, i, i + Len(needle) - 1) = needle

\* The exceptions work() raises in the model: type(exc).__name__ and str(exc).
Exceptions ==
    <<
       [type |-> "TimeoutError", msg |-> <<>>],
       [type |-> "Exception", msg |-> <<"R", "e", "a", "d", " ", "T", "i", "m", "e", "o", "u", "t">>],
       [type |-> "Exception", msg |-> <<"H", "T", "T", "P", " ", "E", "r", "r", "o", "r", " ", "4", "2", "9">>],
       [type |-> "Exception", msg |-> <<"T", "o", "o", " ", "M", "a", "n", "y", " ", "R", "e", "q", "u", "e", "s", "t", "s">>],
       [type |-> "Exception", msg |-> <<"4", "0", "1", " ", "U", "n", "a", "u", "t", "h", "o", "r", "i", "z", "e", "d">>],
       [type |-> "PermissionError", msg |-> <<"d", "e", "n", "i", "e", "d">>],
       [type |-> "Exception", msg |-> <<"f", "f", "m", "p", "e", "g", " ", "n", "o", "t", " ", "f", "o", "u", "n", "d">>],
       [type |-> "OSError", msg |-> <<"N", "o", " ", "s", "p", "a", "c", "e", " ", "l", "e", "f", "t">>],
       [type |-> "Exception", msg |-> <<"P", "r", "i", "v", "a", "t", "e", " ", "v", "i", "d", "e", "o">>],
       [type |-> "RuntimeError", msg |-> <<"R", "e", "t", "r", "y", " ", "e", "x", "h", "a", "u", "s", "t", "e", "d", " ", "(", "u", "n", "r", "e", "a", "c", "h", "a", "b", "l", "e", ")">>]
    >>
\* The last one is raised by execute_with_retry itself, after its loop.
RetryExhaustedId == Len(Exceptions)
ExcIds == 1..(Len(Exceptions) - 1)

S_timeout == <<"t", "i", "m", "e", "o", "u", "t">>
S_429 == <<"4", "2", "9">>
S_too_many_requests == <<"t", "o", "o", " ", "m", "a", "n", "y", " ", "r", "e", "q", "u", "e", "s", "t", "s">>
S_unauthorized == <<"u", "n", "a", "u", "t", "h", "o", "r", "i", "z", "e", "d">>
S_forbidden == <<"f", "o", "r", "b", "i", "d", "d", "e", "n">>
S_auth == <<"a", "u", "t", "h">>
S_not_found == <<"n", "o", "t", " ", "f", "o", "u", "n", "d">>
S_no_such_file == <<"n", "o", " ", "s", "u", "c", "h", " ", "f", "i", "l", "e">>
S_ffmpeg == <<"f", "f", "m", "p", "e", "g">>
S_disk == <<"d", "i", "s", "k">>
S_no_space == <<"n", "o", " ", "s", "p", "a", "c", "e">>

\* RetryPolicy.classify_error(exc); `a or b and c` is `a or (b and c)`.
classify_error(exc) ==
    LET exc_type == exc.type
        exc_str == lower(exc.msg)
    IN IF Contains(exc_str, S_timeout) \/ exc_type = "TimeoutError"
         THEN "transient_network"
       ELSE IF Contains(exc_str, S_429) \/ Contains(exc_str, S_too_many_requests)
         THEN "platform_throttle"
       ELSE IF \/ Contains(exc_str, S_unauthorized)
               \/ Contains(exc_str, S_forbidden)
               \/ Contains(exc_str, S_auth)
               \/ exc_type = "PermissionError"
         THEN "auth_failure"
       ELSE IF \/ Contains(exc_str, S_not_found)
               \/ (Contains(exc_str, S_no_such_file)
                   /\ Contains(lower(exc_str), S_ffmpeg))
         THEN "missing_dependency"
       ELSE IF \/ Contains(exc_str, S_disk)
               \/ Contains(exc_str, S_no_space)
               \/ exc_type \in {"OSError", "IOError"}
         THEN "io_error"
       ELSE "permanent"

Pow2(n) == 2 ^ n
Min(a, b) == IF a <= b THEN a ELSE b
Max(a, b) == IF a >= b THEN a ELSE b

\* RetryPolicy.calculate_backoff(attempt, category), in ticks.
Buggy_Multiplier(category) ==
    IF category = "transient_network" THEN 2 ELSE 1
Multiplier(category) == IF category = "platform_throttle" THEN 2 ELSE 1

Buggy_Capped(delay, max_delay) == Max(delay, max_delay)
Capped(delay, max_delay) == Min(delay, max_delay)

calculate_backoff(attempt, category, base_delay, max_delay) ==
    LET multiplier == Multiplier(category)
        delay == base_delay * Pow2(attempt - 1) * multiplier
    IN Capped(delay, max_delay)

\* int(backoff): whole seconds, truncated.
IntSeconds(ticks) == ticks \div TicksPerSecond

\* RetryPolicy.attempts_remaining
attempts_remaining(max_attempts, attempt_count) ==
    Max(0, max_attempts - attempt_count)

\* RetryPolicy._suggest_action(category)
_suggest_action(category) ==
    CASE category = "transient_network" ->
           "Check your network connection and try again"
      [] category = "platform_throttle" ->
           "Platform rate-limited; will retry automatically"
      [] category = "auth_failure" -> "Check cookies or login credentials"
      [] category = "missing_dependency" ->
           "Ensure ffmpeg is installed and in PATH"
      [] category = "io_error" ->
           "Check available disk space and try clearing temp files"
      [] OTHER -> None

NoRemedy == [category |-> None, message |-> 0, retry_after_seconds |-> 0,
             attempts_remaining |-> 0, action |-> None]

\* `self._attempt_count = attempt` at the top of the loop body.
Buggy_SetAttemptCount(attempt_count, attempt) == attempt_count + 1
SetAttemptCount(attempt_count, attempt) == attempt

\* `if on_retry:` with the callback given or None
Buggy_CallsOnRetry(on_retry_given) == FALSE
CallsOnRetry(on_retry_given) == on_retry_given

\* `if attempt >= self._max_attempts: raise`
Buggy_IsLastAttempt(attempt, max_attempts) == attempt > max_attempts
IsLastAttempt(attempt, max_attempts) == attempt >= max_attempts

DefaultMaxAttempts == 3        \* RetryPolicy(max_attempts=3)
DefaultBaseDelaySeconds == 1   \* base_delay_seconds=1.0
DefaultMaxDelaySeconds == 60   \* max_delay_seconds=60.0

RConstructed(max_attempts, base_delay, max_delay) ==
    /\ r_max_attempts = max_attempts
    /\ r_base_delay = base_delay
    /\ r_max_delay = max_delay
    /\ r_attempt_count = 0
    /\ r_last_error = 0
    /\ rpc = [k \in RCalls |-> "idle"]
    /\ r_attempt = [k \in RCalls |-> 0]
    /\ r_on_retry = [k \in RCalls |-> FALSE]
    /\ r_remedy = [k \in RCalls |-> NoRemedy]
    /\ r_sleep = [k \in RCalls |-> 0]
    /\ r_result = [k \in RCalls |-> NoOutcome]
    /\ r_invocations = [k \in RCalls |-> 0]
    /\ r_failures = [k \in RCalls |-> 0]
    /\ r_workval = [k \in RCalls |-> NoOutcome]
    /\ r_calls = 0
    /\ r_notified = [k \in RCalls |-> 0]

RInit ==
    \E ma \in 1..MaxAttemptsBound,
       bd \in {1, DefaultBaseDelaySeconds * TicksPerSecond},
       md \in {3 * TicksPerSecond, DefaultMaxDelaySeconds * TicksPerSecond} :
        RConstructed(ma, bd, md)
RUnused == RConstructed(DefaultMaxAttempts,
                        DefaultBaseDelaySeconds * TicksPerSecond,
                        DefaultMaxDelaySeconds * TicksPerSecond)

RConfigUnchanged == UNCHANGED <<r_max_attempts, r_base_delay, r_max_delay>>

\* The top of the loop body for `attempt`: the policy's counter is set and
\* work() is invoked and awaited.
RBeginAttempt(k, attempt) ==
    /\ r_attempt' = [r_attempt EXCEPT ![k] = attempt]
    /\ r_attempt_count' = SetAttemptCount(r_attempt_count, attempt)
    /\ r_invocations' = [r_invocations EXCEPT ![k] = @ + 1]
    /\ rpc' = [rpc EXCEPT ![k] = "work"]

\* execute_with_retry(work, on_retry) is called: first pass of the loop
\* (range(1, max_attempts + 1) is never empty, max_attempts being >= 1).
RStart(k, with_on_retry) ==
    /\ rpc[k] = "idle"
    /\ r_calls < MaxRetryCalls
    /\ r_calls' = r_calls + 1
    /\ RBeginAttempt(k, 1)
    /\ r_on_retry' = [r_on_retry EXCEPT ![k] = with_on_retry]
    /\ UNCHANGED <<r_last_error, r_remedy, r_sleep, r_result, r_failures,
                   r_workval>>
    /\ UNCHANGED r_notified
    /\ RConfigUnchanged
    /\ RFrame

\* work() returns v: `return await work()`.
RWorkSucceeds(k, v) ==
    /\ rpc[k] = "work"
    /\ r_workval' = [r_workval EXCEPT ![k] = Returned(v)]
    /\ r_result' = [r_result EXCEPT ![k] = Returned(v)]
    /\ rpc' = [rpc EXCEPT ![k] = "returned"]
    /\ UNCHANGED <<r_attempt_count, r_last_error, r_attempt, r_on_retry,
                   r_remedy, r_sleep, r_invocations, r_failures, r_calls>>
    /\ UNCHANGED r_notified
    /\ RConfigUnchanged
    /\ RFrame

\* work() raises exception e: the except clause.  On the last attempt the
\* error is re-raised; otherwise the remedy is built and on_retry (when
\* given) is awaited, else the backoff sleep starts.
RWorkFails(k, e) ==
    /\ rpc[k] = "work"
    /\ r_workval' = [r_workval EXCEPT ![k] = Raised(e)]
    /\ r_failures' = [r_failures EXCEPT ![k] = @ + 1]
    /\ r_last_error' = e
    /\ IF IsLastAttempt(r_attempt[k], r_max_attempts)
       THEN /\ r_result' = [r_result EXCEPT ![k] = Raised(e)]
            /\ rpc' = [rpc EXCEPT ![k] = "raised"]
            /\ UNCHANGED <<r_remedy, r_sleep>>
       ELSE LET category == classify_error(Exceptions[e])
                backoff == calculate_backoff(r_attempt[k], category,
                                             r_base_delay, r_max_delay)
            IN /\ r_remedy' = [r_remedy EXCEPT ![k] =
                     [category |-> category,
                      message |-> e,
                      retry_after_seconds |-> IntSeconds(backoff),
                      attempts_remaining |->
                          attempts_remaining(r_max_attempts, r_attempt_count) - 1,
                      action |-> _suggest_action(category)]]
               /\ r_sleep' = [r_sleep EXCEPT ![k] = backoff]
               /\ rpc' = [rpc EXCEPT ![k] =
                     IF CallsOnRetry(r_on_retry[k]) THEN "on_retry"
                     ELSE "sleep"]
               /\ UNCHANGED r_result
    /\ UNCHANGED <<r_attempt_count, r_attempt, r_on_retry, r_invocations,
                   r_calls>>
    /\ UNCHANGED r_notified
    /\ RConfigUnchanged
    /\ RFrame

\* The awaited on_retry(remedy) returns: asyncio.sleep(backoff) starts.
\* (The callbacks the services pass publish a progress state and return.)
ROnRetryDone(k) ==
    /\ rpc[k] = "on_retry"
    /\ rpc' = [rpc EXCEPT ![k] = "sleep"]
    /\ r_notified' = [r_notified EXCEPT ![k] = @ + 1]
    /\ UNCHANGED <<r_attempt_count, r_last_error, r_attempt, r_on_retry,
                   r_remedy, r_sleep, r_result, r_invocations, r_failures,
                   r_workval, r_calls>>
    /\ RConfigUnchanged
    /\ RFrame

\* The sleep ends: next pass of the loop, or, were the range exhausted,
\* the RuntimeError after the loop.
RSleepDone(k) ==
    /\ rpc[k] = "sleep"
    /\ IF r_attempt[k] + 1 <= r_max_attempts
       THEN /\ RBeginAttempt(k, r_attempt[k] + 1)
            /\ UNCHANGED r_result
       ELSE /\ r_result' = [r_result EXCEPT ![k] =
                                Raised(RetryExhaustedId)]
            /\ rpc' = [rpc EXCEPT ![k] = "raised"]
            /\ UNCHANGED <<r_attempt, r_attempt_count, r_invocations>>
    /\ UNCHANGED <<r_last_error, r_on_retry, r_remedy, r_sleep, r_failures,
                   r_workval, r_calls>>
    /\ UNCHANGED r_notified
    /\ RConfigUnchanged
    /\ RFrame

\* What a CancelledError raised at an await of execute_with_retry becomes:
\* `except Exception` does not take it, wherever it is raised.
Buggy_CancelOutcome(where, last_error) ==
    IF where = "sleep" THEN Raised(last_error) ELSE Cancelled
CancelOutcome(where, last_error) == Cancelled

\* The task is cancelled while the call is suspended (in work(), in
\* on_retry or in the sleep): CancelledError is no Exception, so the
\* except clause does not take it and it leaves execute_with_retry.
RCancel(k) ==
    /\ rpc[k] \in {"work", "on_retry", "sleep"}
    /\ r_result' = [r_result EXCEPT ![k] =
                       CancelOutcome(rpc[k], r_last_error)]
    /\ rpc' = [rpc EXCEPT ![k] = "cancelled"]
    /\ UNCHANGED <<r_attempt_count, r_last_error, r_attempt, r_on_retry,
                   r_remedy, r_sleep, r_invocations, r_failures, r_workval,
                   r_calls>>
    /\ UNCHANGED r_notified
    /\ RConfigUnchanged
    /\ RFrame

\* The caller has the outcome; the policy object is used for another call.
RFinish(k) ==
    /\ rpc[k] \in {"returned", "raised", "cancelled"}
    /\ rpc' = [rpc EXCEPT ![k] = "idle"]
    /\ r_attempt' = [r_attempt EXCEPT ![k] = 0]
    /\ r_on_retry' = [r_on_retry EXCEPT ![k] = FALSE]
    /\ r_remedy' = [r_remedy EXCEPT ![k] = NoRemedy]
    /\ r_sleep' = [r_sleep EXCEPT ![k] = 0]
    /\ r_result' = [r_result EXCEPT ![k] = NoOutcome]
    /\ r_invocations' = [r_invocations EXCEPT ![k] = 0]
    /\ r_failures' = [r_failures EXCEPT ![k] = 0]
    /\ r_workval' = [r_workval EXCEPT ![k] = NoOutcome]
    /\ r_notified' = [r_notified EXCEPT ![k] = 0]
    /\ UNCHANGED <<r_attempt_count, r_last_error, r_calls>>
    /\ RConfigUnchanged
    /\ RFrame

(***************************************************************************)
(* RetryPolicy: properties                                                 *)
(***************************************************************************)
\* C2: if work fails on its first k < max_attempts invocations and
\* succeeds on the next, execute_with_retry returns that value at once,
\* having invoked work exactly k+1 times, and attempt_count is k+1.
C2_SuccessAfterFailures ==
    \A k \in RCalls :
        /\ r_workval[k].kind = "returned" => rpc[k] = "returned"
        /\ rpc[k] = "returned" =>
             /\ r_workval[k].kind = "returned"
             /\ r_result[k] = r_workval[k]
             /\ r_failures[k] < r_max_attempts
             /\ r_invocations[k] = r_failures[k] + 1
             /\ r_attempt_count = r_failures[k] + 1

\* C2 witness: a call on a policy that was used before returns the value
\* of its last allowed attempt after max_attempts - 1 failures.
C2_Witness ==
    /\ rpc[1] = "returned"
    /\ r_calls = 2
    /\ r_failures[1] >= 1
    /\ r_failures[1] = r_max_attempts - 1

C21_OnRetryOncePerRetriedFailure ==
    \A k \in RCalls :
      /\ (r_on_retry[k] /\ rpc[k] = "on_retry")
            => /\ r_notified[k] = r_failures[k] - 1
               /\ r_failures[k] = r_invocations[k]
               /\ r_failures[k] < r_max_attempts
               /\ r_workval[k].kind = "raised"
               /\ r_remedy[k].category =
                    classify_error(Exceptions[r_workval[k].val])
      /\ (r_on_retry[k] /\ rpc[k] = "sleep")
            => r_notified[k] = r_failures[k]
      /\ (r_on_retry[k] /\ rpc[k] = "work")
            => /\ r_notified[k] = r_failures[k]
               /\ r_invocations[k] = r_failures[k] + 1
      /\ (r_on_retry[k] /\ rpc[k] = "returned")
            => r_notified[k] = r_failures[k]
      /\ (r_on_retry[k] /\ rpc[k] = "raised")
            => /\ r_failures[k] = r_max_attempts
               /\ r_notified[k] = r_max_attempts - 1

\* C21 witness: a call with on_retry failed on every allowed attempt; two
\* on_retry calls were made for its three failures.
C21_Witness ==
    \E k \in RCalls :
      /\ r_on_retry[k]
      /\ rpc[k] = "raised"
      /\ r_max_attempts = 3
      /\ r_failures[k] = 3
      /\ r_notified[k] = 2

\* C20: a cancellation that arrives while the call is suspended in the
\* backoff sleep leaves execute_with_retry as a cancellation, not as the
\* work's error or a result, and the call invokes work no more.
C20_CancelDuringSleepPropagates ==
    [][\A k \in RCalls :
         /\ (rpc[k] = "sleep" /\ rpc'[k] = "cancelled")
               => /\ r_result'[k] = Cancelled
                  /\ r_invocations'[k] = r_invocations[k]
         /\ rpc[k] = "cancelled"
               => \/ rpc'[k] = "idle"
                  \/ /\ rpc'[k] = "cancelled"
                     /\ r_result'[k] = Cancelled
                     /\ r_invocations'[k] = r_invocations[k]]_vars

\* C20 witness: a call without on_retry whose every invocation of work
\* failed, fewer than max_attempts of them, ended by a cancellation: it was
\* cancelled in its sleep.
C20_Witness ==
    \E k \in RCalls :
      /\ rpc[k] = "cancelled"
      /\ r_result[k] = Cancelled
      /\ ~r_on_retry[k]
      /\ r_invocations[k] = 2
      /\ r_failures[k] = 2
      /\ r_max_attempts = 3

(***************************************************************************)
(* ProgressState and ProgressBus                                           *)
(***************************************************************************)
NumJobs == 2              \* job ids
NumCallbacks == 2         \* distinct subscriber callbacks
NumPublishers == 2        \* threads calling publish()
MaxSubscribers == 2       \* length of the subscriber list
MaxTtl == 2               \* ttl_seconds is drawn from 1..MaxTtl
MaxTime == MaxTtl + 1     \* the clock runs from 0 to just past the TTL
MaxPublishes == 3         \* total publish() calls

Jobs == 1..NumJobs
Callbacks == 1..NumCallbacks
Publishers == 1..NumPublishers
RawPercents == {-5, 50, 150}
CachePercents == {50, 150}     \* two percents tell two publishes apart

\* ProgressState.clamp_percent(): max(0.0, min(100.0, percent))
Buggy_clamp_percent(percent) == Min(100, percent)
clamp_percent(percent) == Max(0, Min(100, percent))

\* "no state": what latest() returns as None (job ids start at 1)
NoState == [job_id |-> 0, percent |-> 0]
NoEntry == [state |-> NoState, timestamp |-> 0]
NoLatest == [job_id |-> 0, state |-> NoState]
\* "no snapshot() call"; a returned dict maps the jobs it holds to states
NoSnapshot == [called |-> FALSE, entries |-> [j \in Jobs |-> NoState]]

\* `now - timestamp > self._ttl_seconds`, in _evict_expired and in latest
Buggy_IsExpired(now, timestamp, ttl) == now - timestamp >= ttl
IsExpired(now, timestamp, ttl) == now - timestamp > ttl

\* ProgressBus._evict_expired(now)
Buggy_evict_expired(store, now, ttl) == store
_evict_expired(store, now, ttl) ==
    [j \in Jobs |->
        IF store[j] # NoEntry /\ IsExpired(now, store[j].timestamp, ttl)
        THEN NoEntry ELSE store[j]]

\* What a subscriber callback does when it is invoked: it returns, it
\* raises, or it calls subscribe/unsubscribe on the bus and returns.
CallbackBehaviours ==
    {[kind |-> "return", cb |-> 0], [kind |-> "raise", cb |-> 0]}
    \cup {[kind |-> "subscribe", cb |-> c] : c \in Callbacks}
    \cup {[kind |-> "unsubscribe", cb |-> c] : c \in Callbacks}

\* ProgressBus.subscribe / unsubscribe on the list
subscribe(subs, cb) == Append(subs, cb)
unsubscribe(subs, cb) == SeqRemove(subs, cb)

BConstructed(ttl) ==
    /\ b_ttl = ttl
    /\ b_now = 0
    /\ b_subscribers = <<>>
    /\ b_store = [j \in Jobs |-> NoEntry]
    /\ ppc = [p \in Publishers |-> "idle"]
    /\ p_state = [p \in Publishers |-> NoState]
    /\ p_listeners = [p \in Publishers |-> <<>>]
    /\ p_snapshot = [p \in Publishers |-> <<>>]
    /\ p_delivered = [p \in Publishers |-> <<>>]
    /\ b_latest = NoLatest
    /\ b_snapshot = NoSnapshot
    /\ b_lastpub = [j \in Jobs |-> NoEntry]
    /\ b_pubs = 0

BInit == \E ttl \in 1..MaxTtl : BConstructed(ttl)
BUnused == BConstructed(MaxTtl)

\* The injected clock moves on.
BTick ==
    /\ b_now < MaxTime
    /\ b_now' = b_now + 1
    /\ b_latest' = NoLatest
    /\ b_snapshot' = NoSnapshot
    /\ UNCHANGED <<b_ttl, b_subscribers, b_store, ppc, p_state, p_listeners,
                   p_snapshot, p_delivered, b_lastpub, b_pubs>>
    /\ BFrame

\* publish(state), up to the end of the locked block: the percent is
\* clamped, the entry stored, expired entries evicted and the subscriber
\* list copied.  The callbacks are called after the lock is released.
BPublish(p, job_id, percent) ==
    /\ ppc[p] = "idle"
    /\ b_pubs < MaxPublishes
    /\ b_pubs' = b_pubs + 1
    /\ LET state == [job_id |-> job_id, percent |-> clamp_percent(percent)]
           entry == [state |-> state, timestamp |-> b_now]
       IN /\ b_store' = _evict_expired([b_store EXCEPT ![job_id] = entry],
                                       b_now, b_ttl)
          /\ b_lastpub' = [b_lastpub EXCEPT ![job_id] = entry]
          /\ p_state' = [p_state EXCEPT ![p] =
                           IF b_subscribers = <<>> THEN NoState ELSE state]
    /\ p_listeners' = [p_listeners EXCEPT ![p] = b_subscribers]
    /\ p_snapshot' = [p_snapshot EXCEPT ![p] = b_subscribers]
    /\ p_delivered' = [p_delivered EXCEPT ![p] = <<>>]
    /\ ppc' = [ppc EXCEPT ![p] =
                 IF b_subscribers = <<>> THEN "returned" ELSE "delivering"]
    /\ b_latest' = NoLatest
    /\ b_snapshot' = NoSnapshot
    /\ UNCHANGED <<b_ttl, b_now, b_subscribers>>
    /\ BFrame

\* One pass of `for callback in listeners: callback(state)`: the next
\* callback is invoked and does what it does.  An exception of the
\* callback leaves the loop and publish().
BDeliver(p, does) ==
    /\ ppc[p] = "delivering"
    /\ LET callback == Head(p_listeners[p])
           rest == Tail(p_listeners[p])
       IN /\ p_delivered' = [p_delivered EXCEPT ![p] = Append(@, callback)]
          /\ p_listeners' = [p_listeners EXCEPT ![p] = rest]
          /\ ppc' = [ppc EXCEPT ![p] =
                       IF does.kind = "raise" THEN "raised"
                       ELSE IF rest = <<>> THEN "returned"
                       ELSE "delivering"]
          /\ p_state' = [p_state EXCEPT ![p] =
                           IF does.kind = "raise" \/ rest = <<>>
                           THEN NoState ELSE @]
    /\ b_subscribers' =
         CASE does.kind = "subscribe" /\ Len(b_subscribers) < MaxSubscribers ->
                subscribe(b_subscribers, does.cb)
           [] does.kind = "unsubscribe" -> unsubscribe(b_subscribers, does.cb)
           [] OTHER -> b_subscribers
    /\ b_latest' = NoLatest
    /\ b_snapshot' = NoSnapshot
    /\ UNCHANGED <<b_ttl, b_now, b_store, p_snapshot, b_lastpub,
                   b_pubs>>
    /\ BFrame

\* The publishing thread has left publish(); it may publish again.
BPublishEnd(p) ==
    /\ ppc[p] \in {"returned", "raised"}
    /\ ppc' = [ppc EXCEPT ![p] = "idle"]
    /\ UNCHANGED p_state
    /\ p_listeners' = [p_listeners EXCEPT ![p] = <<>>]
    /\ p_snapshot' = [p_snapshot EXCEPT ![p] = <<>>]
    /\ p_delivered' = [p_delivered EXCEPT ![p] = <<>>]
    /\ b_latest' = NoLatest
    /\ b_snapshot' = NoSnapshot
    /\ UNCHANGED <<b_ttl, b_now, b_subscribers, b_store, b_lastpub,
                   b_pubs>>
    /\ BFrame

\* subscribe(callback) by some thread
BSubscribe(cb) ==
    /\ Len(b_subscribers) < MaxSubscribers
    /\ b_subscribers' = subscribe(b_subscribers, cb)
    /\ b_latest' = NoLatest
    /\ b_snapshot' = NoSnapshot
    /\ UNCHANGED <<b_ttl, b_now, b_store, ppc, p_state, p_listeners,
                   p_snapshot, p_delivered, b_lastpub, b_pubs>>
    /\ BFrame

\* unsubscribe(callback) by some thread
BUnsubscribe(cb) ==
    /\ \E i \in 1..Len(b_subscribers) : b_subscribers[i] = cb
    /\ b_subscribers' = unsubscribe(b_subscribers, cb)
    /\ b_latest' = NoLatest
    /\ b_snapshot' = NoSnapshot
    /\ UNCHANGED <<b_ttl, b_now, b_store, ppc, p_state, p_listeners,
                   p_snapshot, p_delivered, b_lastpub, b_pubs>>
    /\ BFrame

\* latest(job_id): none when absent; an entry older than the TTL is
\* popped and none returned; else the stored state.
BLatest(job_id) ==
    LET entry == b_store[job_id]
    IN /\ IF entry = NoEntry
          THEN /\ b_latest' = [job_id |-> job_id, state |-> NoState]
               /\ UNCHANGED b_store
          ELSE IF IsExpired(b_now, entry.timestamp, b_ttl)
          THEN /\ b_store' = [b_store EXCEPT ![job_id] = NoEntry]
               /\ b_latest' = [job_id |-> job_id, state |-> NoState]
          ELSE /\ b_latest' = [job_id |-> job_id, state |-> entry.state]
               /\ UNCHANGED b_store
       /\ b_snapshot' = NoSnapshot
       /\ UNCHANGED <<b_ttl, b_now, b_subscribers, ppc, p_state, p_listeners,
                      p_snapshot, p_delivered, b_lastpub, b_pubs>>
       /\ BFrame

\* {job_id: state for job_id, (state, _) in self._store.items()}
snapshot(store) ==
    [called |-> TRUE,
     entries |-> [j \in Jobs |->
                    IF store[j] # NoEntry THEN store[j].state ELSE NoState]]

\* snapshot(): expired entries are evicted, the rest returned
BSnapshot ==
    /\ b_store' = _evict_expired(b_store, b_now, b_ttl)
    /\ b_snapshot' = snapshot(b_store')
    /\ b_latest' = NoLatest
    /\ UNCHANGED <<b_ttl, b_now, b_subscribers, ppc, p_state, p_listeners,
                   p_snapshot, p_delivered, b_lastpub, b_pubs>>
    /\ BFrame

\* C27: when on_retry is invoked after the a-th attempt of a call has
\* failed (a < max_attempts, one call using the policy), the remedy's
\* attempts_remaining is max(0, max_attempts - a): the value of the
\* policy's attempts_remaining property at that moment, and the number of
\* attempts the call may still make.
C27_RemedyAttemptsRemaining ==
    (r_on_retry[1] /\ rpc[1] = "on_retry")
        => /\ r_remedy[1].attempts_remaining =
                  Max(0, r_max_attempts - r_failures[1])
           /\ r_remedy[1].attempts_remaining =
                  attempts_remaining(r_max_attempts, r_attempt_count)

\* C28: every RetryRemedy handed to an on_retry callback has
\* attempts_remaining >= 0, in every interleaving of several
\* execute_with_retry calls running on one shared RetryPolicy.
C28_RemedyAttemptsRemainingNonNegative ==
    \A k \in RCalls :
        (r_on_retry[k] /\ rpc[k] = "on_retry")
            => r_remedy[k].attempts_remaining >= 0

\* C38: each execute_with_retry call invokes its work at most
\* max_attempts times, and at the moment it returns or raises,
\* attempt_count is the number of attempts that call made, also when
\* other calls run concurrently on the same RetryPolicy.
C38_AttemptCountIsOwnAttempts ==
    [][\A k \in RCalls :
          /\ r_invocations'[k] <= r_max_attempts
          /\ (rpc[k] = "work" /\ rpc'[k] \in {"returned", "raised"})
                => r_attempt_count' = r_invocations'[k]]_vars

(***************************************************************************)
(* ProgressBus: properties                                                 *)
(***************************************************************************)
\* What latest(job_id) has to return by the publishes made so far.
ExpectedLatest(job_id) ==
    IF b_lastpub[job_id] = NoEntry THEN NoState
    ELSE IF b_now - b_lastpub[job_id].timestamp <= b_ttl
         THEN b_lastpub[job_id].state
         ELSE NoState

\* C4: latest(job_id) returns the state most recently published for the
\* job while its age by the clock is at most ttl_seconds, and none when
\* the age is greater or nothing was published for the job.
C4_LatestIsLastPublishedWithinTtl ==
    [][\A j \in Jobs :
         BLatest(j) => b_latest' = [job_id |-> j, state |-> ExpectedLatest(j)]]_vars

\* C4 witness: latest returned the second state published for a job, at
\* the moment its age is exactly ttl_seconds, after an entry of the other
\* job had expired.
C4_Witness ==
    /\ b_latest.state # NoState
    /\ b_lastpub[b_latest.job_id].state = b_latest.state
    /\ b_now - b_lastpub[b_latest.job_id].timestamp = b_ttl
    /\ b_pubs >= 2
    /\ \E j \in Jobs : b_lastpub[j] # NoEntry /\ b_store[j] = NoEntry

\* No cached entry is older than the TTL.
NoneOlderThanTtl ==
    \A j \in Jobs :
        b_store[j] # NoEntry => b_now - b_store[j].timestamp <= b_ttl

\* C32: immediately after a publish() or a snapshot() the cache holds no
\* entry whose age exceeds ttl_seconds; snapshot() returns one entry for
\* each job whose last publish is within the TTL, mapped to that last
\* published state, and no other; the entry a publish stores is in the
\* cache when the publish has stored it.
C32_SweepOnPublishAndSnapshot ==
    [][/\ b_pubs' = b_pubs + 1 =>
            /\ NoneOlderThanTtl'
            /\ \A j \in Jobs :
                  (b_lastpub'[j] # NoEntry /\ b_lastpub'[j].timestamp = b_now)
                      => b_store'[j] = b_lastpub'[j]
       /\ b_snapshot'.called =>
            /\ NoneOlderThanTtl'
            /\ b_snapshot'.entries = [j \in Jobs |-> ExpectedLatest(j)]]_vars

\* C32 witness: a snapshot returned the state of a job published exactly
\* ttl_seconds ago and no entry for the other job, whose last publish is
\* older than the TTL.
C32_Witness ==
    /\ b_snapshot.called
    /\ \E j, k \in Jobs :
          /\ b_snapshot.entries[j] # NoState
          /\ b_snapshot.entries[j] = b_lastpub[j].state
          /\ b_now - b_lastpub[j].timestamp = b_ttl
          /\ b_lastpub[k] # NoEntry
          /\ b_now - b_lastpub[k].timestamp > b_ttl
          /\ b_snapshot.entries[k] = NoState
          /\ b_store[k] = NoEntry

Count(seq, x) == Cardinality({i \in 1..Len(seq) : seq[i] = x})

\* C5: a publish delivers its state to every callback subscribed at the
\* moment of the publish exactly once, and to no other, whatever the
\* callbacks do (stated of publish calls that have ended).
C5_DeliveredToEverySubscriberOnce ==
    \A p \in Publishers :
        ppc[p] \in {"returned", "raised"} =>
            \A cb \in Callbacks :
                Count(p_delivered[p], cb) =
                    IF Count(p_snapshot[p], cb) > 0 THEN 1 ELSE 0

\* C37: once unsubscribe(callback) has returned, no publish invokes the
\* callback again, not even a publish of another thread that began before
\* the unsubscribe: every callback a publish invokes is subscribed at the
\* moment it is invoked.
C37_NotInvokedAfterUnsubscribe ==
    [][\A p \in Publishers :
          (ppc[p] = "delivering" /\ p_delivered'[p] # p_delivered[p])
             => Count(b_subscribers, Head(p_listeners[p])) > 0]_vars

\* A percent within the range of ProgressState.percent
InRange(percent) == 0 <= percent /\ percent <= 100

NumRestJobs == 3          \* download jobs submitted to the REST layer
RestMaxWorkers == 2       \* _transcode_queue = TranscodeQueue(max_workers=2)
TranscodeMaxAttempts == 2 \* TranscodeService: RetryPolicy(max_attempts=2)

RestJobs == 1..NumRestJobs
Formats == {"mp4", "mp3"}

TInit ==
    /\ t_pc = [j \in RestJobs |-> "idle"]
    /\ t_status = [j \in RestJobs |-> None]
    /\ t_fmt = [j \in RestJobs |-> None]
    /\ t_attempt = [j \in RestJobs |-> 0]
    /\ t_final = [j \in RestJobs |-> None]

\* _apply_transcode transcodes only an mp4 request whose file is an .mp4
NeedsTranscode(fmt, is_mp4_file) == fmt = "mp4" /\ is_mp4_file

\* submit_download: the job is stored as pending and its thread started.
TSubmit(j, fmt) ==
    /\ t_pc[j] = "idle"
    /\ t_pc' = [t_pc EXCEPT ![j] = "download"]
    /\ t_status' = [t_status EXCEPT ![j] = "pending"]
    /\ t_fmt' = [t_fmt EXCEPT ![j] = fmt]
    /\ UNCHANGED <<t_attempt, t_final>>
    /\ TFrame

\* _run_download: the download raises; the job is marked failed.
TDownloadFails(j) ==
    /\ t_pc[j] = "download"
    /\ t_pc' = [t_pc EXCEPT ![j] = "ended"]
    /\ t_status' = [t_status EXCEPT ![j] = "failed"]
    /\ UNCHANGED <<t_fmt, t_attempt, t_final>>
    /\ TFrame

\* _run_download: the file is there and _apply_transcode is called.  A
\* file that needs no transcode is returned as it is and the job is
\* completed.  Otherwise the job is marked transcoding and, on an event
\* loop of the thread's own, transcode_primary is run: the first attempt
\* of its retry loop starts ffmpeg.  The call does not go through
\* transcode_with_queue, so the queue is not entered.
TDownloadDone(j, is_mp4_file) ==
    /\ t_pc[j] = "download"
    /\ IF NeedsTranscode(t_fmt[j], is_mp4_file)
       THEN /\ t_pc' = [t_pc EXCEPT ![j] = "ffmpeg"]
            /\ t_status' = [t_status EXCEPT ![j] = "transcoding"]
            /\ t_attempt' = [t_attempt EXCEPT ![j] = 1]
            /\ UNCHANGED t_final
       ELSE /\ t_pc' = [t_pc EXCEPT ![j] = "ended"]
            /\ t_status' = [t_status EXCEPT ![j] = "completed"]
            /\ t_final' = [t_final EXCEPT ![j] = "downloaded"]
            /\ UNCHANGED t_attempt
    /\ UNCHANGED t_fmt
    /\ TFrame

\* ffmpeg ends well.  A result over the profile's size limit starts
\* transcode_fallback (ffmpeg again); otherwise _apply_transcode returns
\* the output file when it exists, else the downloaded one.
TFfmpegOk(j, too_large, output_exists) ==
    /\ t_pc[j] = "ffmpeg"
    /\ IF too_large
       THEN /\ t_pc' = [t_pc EXCEPT ![j] = "ffmpeg_fallback"]
            /\ UNCHANGED <<t_status, t_final>>
       ELSE /\ t_pc' = [t_pc EXCEPT ![j] = "ended"]
            /\ t_status' = [t_status EXCEPT ![j] = "completed"]
            /\ t_final' = [t_final EXCEPT ![j] =
                 IF output_exists THEN "transcoded" ELSE "downloaded"]
    /\ UNCHANGED <<t_fmt, t_attempt>>
    /\ TFrame

\* ffmpeg fails.  Before the last attempt the retry loop sleeps; after it
\* transcode_primary returns an error result and the downloaded file is
\* kept.
TFfmpegFails(j) ==
    /\ t_pc[j] = "ffmpeg"
    /\ IF IsLastAttempt(t_attempt[j], TranscodeMaxAttempts)
       THEN /\ t_pc' = [t_pc EXCEPT ![j] = "ended"]
            /\ t_status' = [t_status EXCEPT ![j] = "completed"]
            /\ t_final' = [t_final EXCEPT ![j] = "downloaded"]
       ELSE /\ t_pc' = [t_pc EXCEPT ![j] = "backoff"]
            /\ UNCHANGED <<t_status, t_final>>
    /\ UNCHANGED <<t_fmt, t_attempt>>
    /\ TFrame

\* The backoff sleep ends and the next attempt starts ffmpeg.
TBackoffDone(j) ==
    /\ t_pc[j] = "backoff"
    /\ t_pc' = [t_pc EXCEPT ![j] = "ffmpeg"]
    /\ t_attempt' = [t_attempt EXCEPT ![j] = @ + 1]
    /\ UNCHANGED <<t_status, t_fmt, t_final>>
    /\ TFrame

\* The fallback ffmpeg ends: well (the output, when it exists, is the final
\* file) or not (transcode_primary turns the error into an error result).
TFallbackEnds(j, ok, output_exists) ==
    /\ t_pc[j] = "ffmpeg_fallback"
    /\ t_pc' = [t_pc EXCEPT ![j] = "ended"]
    /\ t_status' = [t_status EXCEPT ![j] = "completed"]
    /\ t_final' = [t_final EXCEPT ![j] =
         IF ok /\ output_exists THEN "transcoded" ELSE "downloaded"]
    /\ UNCHANGED <<t_fmt, t_attempt>>
    /\ TFrame

(***************************************************************************)
(* REST layer: properties                                                  *)
(***************************************************************************)
\* Jobs whose thread has an ffmpeg transcode in progress.
TranscodingSet == {j \in RestJobs : t_pc[j] \in {"ffmpeg", "ffmpeg_fallback"}}

\* C9: every transcode runs while holding a slot of the shared
\* TranscodeQueue, so at most max_workers = 2 transcodes are in progress
\* at any time across the jobs' threads.
C9_TranscodesBoundedByQueue ==
    Cardinality(TranscodingSet) <= max_workers

(***************************************************************************)
(* OutputManager: disk accounting                                          *)
(***************************************************************************)
NumDirs == 3              \* job directory names
DiskTotal == 4            \* size of the file system

DirNames == 1..NumDirs    \* in the order of their paths
Mtimes == {1, 2}              \* st_mtime values: directories can tie
DirSizes == {0, 1, 2}         \* bytes of the files in a job directory
RequiredBytes == 0..DiskTotal \* required_bytes arguments
MinFreeBytes == {0, 1}        \* min_free_bytes arguments

NoCall == [called |-> FALSE, required_bytes |-> 0, min_free_bytes |-> 0,
           free_before |-> 0, dirs_before |-> {},
           mtime_before |-> [n \in DirNames |-> 0],
           size_before |-> [n \in DirNames |-> 0],
           ok |-> FALSE, message |-> None, deleted |-> <<>>]

\* OutputManager.get_disk_usage(): (used_bytes, free_bytes)
Buggy_get_disk_usage == <<d_free, DiskTotal - d_free>>
get_disk_usage == <<DiskTotal - d_free, d_free>>

\* OutputManager.oldest_job() over the directories `dirs`: list_jobs()
\* sorts by path and min() keeps the first of the least st_mtime; 0 is None.
Buggy_oldest_job(dirs) ==
    IF dirs = {} THEN 0
    ELSE CHOOSE n \in dirs :
           \A m \in dirs : \/ d_mtime[n] > d_mtime[m]
                           \/ (d_mtime[n] = d_mtime[m] /\ n <= m)
oldest_job(dirs) ==
    IF dirs = {} THEN 0
    ELSE CHOOSE n \in dirs :
           \A m \in dirs : \/ d_mtime[n] < d_mtime[m]
                           \/ (d_mtime[n] = d_mtime[m] /\ n <= m)

\* The message ensure_free_space fails with.
InsufficientSpace == "disk space insufficient: clean up files or add space"

\* The condition of the eviction loop: while free + freed < total_needed
Buggy_StillShort(free, freed, total_needed) == free < total_needed
StillShort(free, freed, total_needed) == free + freed < total_needed

\* The eviction loop of ensure_free_space:
\*   while free + freed < total_needed: evict oldest_job() or fail
RECURSIVE EvictLoop(_, _, _, _, _)
EvictLoop(dirs, free, freed, total_needed, deleted) ==
    IF ~StillShort(free, freed, total_needed)
    THEN [ok |-> TRUE, message |-> None, dirs |-> dirs, deleted |-> deleted,
          freed |-> freed]
    ELSE LET oldest == oldest_job(dirs)
         IN IF oldest = 0
            THEN [ok |-> FALSE, message |-> InsufficientSpace, dirs |-> dirs,
                  deleted |-> deleted, freed |-> freed]
            ELSE EvictLoop(dirs \ {oldest}, free, freed + d_size[oldest],
                           total_needed, Append(deleted, oldest))

\* ensure_free_space(required_bytes, min_free_bytes) on the present disk
ensure_free_space(required_bytes, min_free_bytes) ==
    LET free == get_disk_usage[2]
        total_needed == required_bytes + min_free_bytes
    IN IF free >= total_needed
       THEN [ok |-> TRUE, message |-> None, dirs |-> d_dirs,
             deleted |-> <<>>, freed |-> 0]
       ELSE EvictLoop(d_dirs, free, 0, total_needed, <<>>)

DInit ==
    /\ d_dirs = {}
    /\ d_mtime = [n \in DirNames |-> 0]
    /\ d_size = [n \in DirNames |-> 0]
    /\ d_free \in 0..DiskTotal
    /\ d_efs = NoCall

DUnused ==
    /\ d_dirs = {}
    /\ d_mtime = [n \in DirNames |-> 0]
    /\ d_size = [n \in DirNames |-> 0]
    /\ d_free = DiskTotal
    /\ d_efs = NoCall

\* prepare_job(job_id) and the job's writes into its directory: the
\* directory exists with some files and a modification time.
DPrepareJob(n, size, mtime) ==
    /\ n \notin d_dirs
    /\ size <= d_free
    /\ d_dirs' = d_dirs \cup {n}
    /\ d_size' = [d_size EXCEPT ![n] = size]
    /\ d_mtime' = [d_mtime EXCEPT ![n] = mtime]
    /\ d_free' = d_free - size
    /\ d_efs' = NoCall
    /\ DFrame

\* cleanup_job(job_id): the directory is removed when it exists.
DCleanupJob(n) ==
    /\ n \in d_dirs
    /\ d_dirs' = d_dirs \ {n}
    /\ d_free' = d_free + d_size[n]
    /\ d_size' = [d_size EXCEPT ![n] = 0]
    /\ d_mtime' = [d_mtime EXCEPT ![n] = 0]
    /\ d_efs' = NoCall
    /\ DFrame

\* ensure_free_space(required_bytes, min_free_bytes), the whole call: the
\* evicted directories are gone and their bytes free.
DEnsureFreeSpace(required_bytes, min_free_bytes) ==
    LET r == ensure_free_space(required_bytes, min_free_bytes)
        gone == d_dirs \ r.dirs
    IN /\ d_dirs' = r.dirs
       /\ d_free' = d_free + r.freed
       /\ d_size' = [n \in DirNames |-> IF n \in gone THEN 0 ELSE d_size[n]]
       /\ d_mtime' = [n \in DirNames |-> IF n \in gone THEN 0 ELSE d_mtime[n]]
       /\ d_efs' = [called |-> TRUE,
                    required_bytes |-> required_bytes,
                    min_free_bytes |-> min_free_bytes,
                    free_before |-> d_free,
                    dirs_before |-> d_dirs,
                    mtime_before |-> d_mtime,
                    size_before |-> d_size,
                    ok |-> r.ok,
                    message |-> r.message,
                    deleted |-> r.deleted]
       /\ DFrame

(***************************************************************************)
(* OutputManager: properties                                               *)
(***************************************************************************)
\* C10: when the free space is at least required_bytes + min_free_bytes,
\* ensure_free_space returns (True, None) and deletes no job directory,
\* whatever job directories exist.
C10_EnoughSpaceNoSideEffects ==
    (d_efs.called
     /\ d_efs.free_before >= d_efs.required_bytes + d_efs.min_free_bytes)
        => /\ d_efs.ok
           /\ d_efs.message = None
           /\ d_efs.deleted = <<>>
           /\ d_dirs = d_efs.dirs_before
           /\ d_free = d_efs.free_before

\* C10 witness: a call that found exactly required_bytes + min_free_bytes
\* free, with two job directories present, succeeded and left both.
C10_Witness ==
    /\ d_efs.called
    /\ d_efs.required_bytes > 0
    /\ d_efs.min_free_bytes > 0
    /\ d_efs.free_before = d_efs.required_bytes + d_efs.min_free_bytes
    /\ Cardinality(d_efs.dirs_before) = 2
    /\ d_efs.ok
    /\ d_dirs = d_efs.dirs_before

\* Total size, at the call, of the directories a call deleted.
RECURSIVE SizeOf(_, _)
SizeOf(deleted, size) ==
    IF deleted = <<>> THEN 0
    ELSE size[Head(deleted)] + SizeOf(Tail(deleted), size)

SeqToSet(seq) == {seq[i] : i \in 1..Len(seq)}
EfsTarget == d_efs.required_bytes + d_efs.min_free_bytes
EfsShort == d_efs.called /\ d_efs.free_before < EfsTarget

C12_FailsOnlyWhenNothingLeftAndShort ==
    /\ (EfsShort /\ d_efs.free_before
                     + SizeOf(d_efs.deleted, d_efs.size_before) < EfsTarget
                 /\ d_dirs = {})
          => /\ ~d_efs.ok
             /\ d_efs.message /= None
             /\ d_efs.message /= ""
    /\ (d_efs.called /\ ~d_efs.ok)
          => /\ d_efs.free_before
                  + SizeOf(d_efs.deleted, d_efs.size_before) < EfsTarget
             /\ d_efs.message /= None
             /\ d_efs.message /= ""

\* C12 witness: a call that found directories, evicted them all, was still
\* short and returned (False, message).
C12_Witness ==
    /\ EfsShort
    /\ ~d_efs.ok
    /\ Len(d_efs.deleted) = 2
    /\ d_efs.message = InsufficientSpace

(***************************************************************************)
(* OutputManager.ensure_free_space, one pass of its loop at a time, on a   *)
(* disk where rmtree(ignore_errors=True) may fail and say nothing          *)
(***************************************************************************)
MaxEvictions == NumDirs + 1   \* cleanup_job calls followed within one call

\* What shutil.rmtree(job_root, ignore_errors=True) may leave: the
\* directory gone; the directory and its files as they were; the
\* directory still there with its files gone.
RmtreeOutcomes == {"removed", "kept", "emptied"}

ENoCall == [required_bytes |-> 0, min_free_bytes |-> 0, free |-> 0,
            total_needed |-> 0, dirs_before |-> {}]
ENoResult == [returned |-> FALSE, ok |-> FALSE, message |-> None]

\* OutputManager.list_jobs(): the children of the root that are directories
Buggy_list_jobs == {n \in d_dirs : d_size[n] > 0}
list_jobs == d_dirs

EConstructed ==
    /\ e_pc = "idle"
    /\ e_call = ENoCall
    /\ e_freed = 0
    /\ e_evicted = <<>>
    /\ e_result = ENoResult

EInit == EConstructed
EUnused == EConstructed

\* Between calls, jobs are prepared and write their files.
EPrepareJob(n, size, mtime) ==
    /\ e_pc = "idle"
    /\ DPrepareJob(n, size, mtime)

\* ensure_free_space(required_bytes, min_free_bytes) up to the loop:
\* enough free space returns (True, None) at once.
EBegin(required_bytes, min_free_bytes) ==
    LET free == get_disk_usage[2]
        total_needed == required_bytes + min_free_bytes
    IN /\ e_pc = "idle"
       /\ e_call' = [required_bytes |-> required_bytes,
                     min_free_bytes |-> min_free_bytes,
                     free |-> free, total_needed |-> total_needed,
                     dirs_before |-> list_jobs]
       /\ e_freed' = 0
       /\ e_evicted' = <<>>
       /\ IF free >= total_needed
          THEN /\ e_pc' = "returned"
               /\ e_result' = [returned |-> TRUE, ok |-> TRUE,
                               message |-> None]
          ELSE /\ e_pc' = "loop"
               /\ e_result' = ENoResult
       /\ UNCHANGED dvars
       /\ EFrame

\* The loop test fails: return (True, None).
ELoopExit ==
    /\ e_pc = "loop"
    /\ ~StillShort(e_call.free, e_freed, e_call.total_needed)
    /\ e_pc' = "returned"
    /\ e_result' = [returned |-> TRUE, ok |-> TRUE, message |-> None]
    /\ UNCHANGED <<e_call, e_freed, e_evicted>>
    /\ UNCHANGED dvars
    /\ EFrame

\* The loop test holds and oldest_job() is None: return (False, msg).
ELoopFail ==
    /\ e_pc = "loop"
    /\ StillShort(e_call.free, e_freed, e_call.total_needed)
    /\ oldest_job(list_jobs) = 0
    /\ e_pc' = "returned"
    /\ e_result' = [returned |-> TRUE, ok |-> FALSE,
                    message |-> InsufficientSpace]
    /\ UNCHANGED <<e_call, e_freed, e_evicted>>
    /\ UNCHANGED dvars
    /\ EFrame

\* One pass of the loop body: the size of the oldest job directory is
\* summed, cleanup_job is called on it and `freed` grows by the size,
\* whatever rmtree did.
ELoopEvict(outcome) ==
    /\ e_pc = "loop"
    /\ StillShort(e_call.free, e_freed, e_call.total_needed)
    /\ oldest_job(list_jobs) # 0
    /\ Len(e_evicted) < MaxEvictions
    /\ LET oldest == oldest_job(list_jobs)
           job_size == d_size[oldest]
       IN /\ e_freed' = e_freed + job_size
          /\ e_evicted' = Append(e_evicted, oldest)
          /\ CASE outcome = "removed" ->
                    /\ d_dirs' = d_dirs \ {oldest}
                    /\ d_free' = d_free + job_size
                    /\ d_size' = [d_size EXCEPT ![oldest] = 0]
                    /\ d_mtime' = [d_mtime EXCEPT ![oldest] = 0]
               [] outcome = "emptied" ->
                    /\ d_free' = d_free + job_size
                    /\ d_size' = [d_size EXCEPT ![oldest] = 0]
                    /\ UNCHANGED <<d_dirs, d_mtime>>
               [] outcome = "kept" ->
                    UNCHANGED <<d_dirs, d_free, d_size, d_mtime>>
    /\ UNCHANGED <<e_pc, e_call, e_result, d_efs>>
    /\ EFrame

\* The caller goes on; another call can be made.
EReturned ==
    /\ e_pc = "returned"
    /\ e_pc' = "idle"
    /\ e_call' = ENoCall
    /\ e_freed' = 0
    /\ e_evicted' = <<>>
    /\ e_result' = ENoResult
    /\ UNCHANGED dvars
    /\ EFrame

\* C34: ensure_free_space returns (False, message) only when no job
\* directory remains under the output root: every job directory that
\* existed at entry is gone by then, and nothing that was evicted is back.
C34_FailsOnlyWithNoDirectoryLeft ==
    (e_result.returned /\ ~e_result.ok) =>
        /\ d_dirs = {}
        /\ \A n \in e_call.dirs_before : n \notin d_dirs
        /\ \A i \in 1..Len(e_evicted) : e_evicted[i] \notin d_dirs
        /\ e_result.message # None

\* C34 witness: a call that found two job directories evicted both, was
\* still short and returned (False, message).
C34_Witness ==
    /\ e_result.returned
    /\ ~e_result.ok
    /\ Cardinality(e_call.dirs_before) = 2
    /\ Len(e_evicted) >= 2
    /\ d_dirs = {}

\* C35: every pass of the eviction loop removes one job directory from
\* those oldest_job() can return: no directory is handed to cleanup_job
\* twice, and the passes made are at most the job directories there were
\* at entry, so the loop ends; this also for empty directories and for
\* deletions that fail silently.
C35_EachDirectoryEvictedOnce ==
    /\ \A i, j \in 1..Len(e_evicted) : i # j => e_evicted[i] # e_evicted[j]
    /\ Len(e_evicted) <= Cardinality(e_call.dirs_before)
    /\ \A i \in 1..Len(e_evicted) : e_evicted[i] \notin list_jobs

(***************************************************************************)
(* ProgressStore                                                           *)
(***************************************************************************)
MaxHistoryRecords == 5    \* record() calls where the history is read
MaxSweepRecords == 3      \* record() calls where the store is swept
StoreTtl == 1             \* ttl_seconds of the store

MaxStoreTime == StoreTtl + 1      \* ages below, at and above the TTL
StoreJobs == {1, 2}
StoreStatuses == {"queued", "transcoding", "completed"}
Limits == 0..MaxHistoryRecords    \* limit arguments of get_history

NoStoreState == [job_id |-> 0, status |-> None, percent |-> 0]
SNoCall == [op |-> None, job_id |-> 0, limit |-> 0, now |-> 0,
            keys_before |-> {},
            records_before |-> [j \in StoreJobs |-> <<>>],
            latest |-> NoStoreState, history |-> <<>>, count |-> 0]

\* now - record.timestamp < expiry
Buggy_IsValid(now, timestamp, ttl) == now - timestamp <= ttl
IsValid(now, timestamp, ttl) == now - timestamp < ttl

\* [r for r in records if now - r.timestamp < expiry]
ValidOf(records, now, ttl) ==
    SelectSeq(records, LAMBDA r : IsValid(now, r.timestamp, ttl))

\* ProgressStore._get_valid_records(job_id)
_get_valid_records(job_id) ==
    IF job_id \notin s_keys THEN <<>>
    ELSE ValidOf(s_records[job_id], s_now, s_ttl)

\* Python's records[start:] for any integer start
SliceFrom(records, start) ==
    LET n == Len(records)
        from == IF start < 0 THEN (IF start + n < 0 THEN 0 ELSE start + n)
                ELSE (IF start > n THEN n ELSE start)
    IN SubSeq(records, from + 1, n)

\* records[-limit:]
LastRecords(records, limit) == SliceFrom(records, 0 - limit)

StatesOf(records) == [i \in 1..Len(records) |-> records[i].state]

\* ProgressStore.get_latest(job_id); NoStoreState is None
get_latest(job_id) ==
    IF job_id \notin s_keys THEN NoStoreState
    ELSE LET records == _get_valid_records(job_id)
         IN IF records /= <<>> THEN records[Len(records)].state
            ELSE NoStoreState

\* ProgressStore.get_history(job_id, limit)
get_history(job_id, limit) ==
    IF job_id \notin s_keys THEN <<>>
    ELSE StatesOf(LastRecords(_get_valid_records(job_id), limit))

\* The statuses get_queue_depth counts
Buggy_CountedStatuses == {"queued"}
CountedStatuses == {"queued", "transcoding"}

\* The records of one job that get_queue_depth counts
RECURSIVE CountRecords(_, _, _)
CountRecords(records, now, ttl) ==
    IF records = <<>> THEN 0
    ELSE (IF /\ IsValid(now, Head(records).timestamp, ttl)
             /\ Head(records).state.status \in CountedStatuses
          THEN 1 ELSE 0) + CountRecords(Tail(records), now, ttl)

\* Sum of f[j] over the jobs in `jobs`
RECURSIVE SumOver(_, _)
SumOver(jobs, f) ==
    IF jobs = {} THEN 0
    ELSE LET j == CHOOSE x \in jobs : TRUE
         IN f[j] + SumOver(jobs \ {j}, f)

\* ProgressStore.get_queue_depth()
get_queue_depth ==
    SumOver(s_keys, [j \in StoreJobs |->
                       CountRecords(s_records[j], s_now, s_ttl)])

\* ProgressStore.cleanup_expired(): the store it leaves and its return value
Buggy_cleanup_expired ==
    LET valid == [j \in StoreJobs |-> ValidOf(s_records[j], s_now, s_ttl)]
        jobs_to_delete == {j \in s_keys : valid[j] = <<>>}
    IN [keys |-> s_keys,
        records |-> valid,
        count |-> SumOver(s_keys \ jobs_to_delete,
                          [j \in StoreJobs |->
                             Len(s_records[j]) - Len(valid[j])])]
cleanup_expired ==
    LET valid == [j \in StoreJobs |-> ValidOf(s_records[j], s_now, s_ttl)]
        jobs_to_delete == {j \in s_keys : valid[j] = <<>>}
        kept == s_keys \ jobs_to_delete
    IN [keys |-> kept,
        records |-> [j \in StoreJobs |->
                       IF j \in kept THEN valid[j] ELSE <<>>],
        count |-> SumOver(kept, [j \in StoreJobs |->
                                   Len(s_records[j]) - Len(valid[j])])
                  + Cardinality(jobs_to_delete)]

DefaultStoreTtlSeconds == 3600

SConstructed(ttl) ==
    /\ s_ttl = ttl
    /\ s_now = 0
    /\ s_keys = {}
    /\ s_records = [j \in StoreJobs |-> <<>>]
    /\ s_serial = 0
    /\ s_ret = SNoCall

SInit == SConstructed(StoreTtl)
SUnused == SConstructed(DefaultStoreTtlSeconds)

\* datetime.now() advances.
STick ==
    /\ s_now < MaxStoreTime
    /\ s_now' = s_now + 1
    /\ s_ret' = SNoCall
    /\ UNCHANGED <<s_ttl, s_keys, s_records, s_serial>>
    /\ SFrame

\* record(state): the state is appended to its job's list, stamped now.
\* The percent of the state numbers the calls.
SRecord(job_id, status, cap) ==
    /\ s_serial < cap
    /\ LET state == [job_id |-> job_id, status |-> status,
                     percent |-> s_serial + 1]
           record == [state |-> state, timestamp |-> s_now]
       IN /\ s_keys' = s_keys \cup {job_id}
          /\ s_records' = [s_records EXCEPT ![job_id] = Append(@, record)]
    /\ s_serial' = s_serial + 1
    /\ s_ret' = SNoCall
    /\ UNCHANGED <<s_ttl, s_now>>
    /\ SFrame

SCall(op, job_id, limit) ==
    [SNoCall EXCEPT !.op = op, !.job_id = job_id, !.limit = limit,
                    !.now = s_now, !.keys_before = s_keys,
                    !.records_before = s_records]

\* get_latest(job_id)
SGetLatest(job_id) ==
    /\ s_ret' = [SCall("get_latest", job_id, 0) EXCEPT
                   !.latest = get_latest(job_id)]
    /\ UNCHANGED <<s_ttl, s_now, s_keys, s_records, s_serial>>
    /\ SFrame

\* get_history(job_id, limit)
SGetHistory(job_id, limit) ==
    /\ s_ret' = [SCall("get_history", job_id, limit) EXCEPT
                   !.history = get_history(job_id, limit)]
    /\ UNCHANGED <<s_ttl, s_now, s_keys, s_records, s_serial>>
    /\ SFrame

\* get_queue_depth()
SGetQueueDepth ==
    /\ s_ret' = [SCall("get_queue_depth", 0, 0) EXCEPT
                   !.count = get_queue_depth]
    /\ UNCHANGED <<s_ttl, s_now, s_keys, s_records, s_serial>>
    /\ SFrame

\* cleanup_expired()
SCleanupExpired ==
    LET r == cleanup_expired
    IN /\ s_keys' = r.keys
       /\ s_records' = r.records
       /\ s_ret' = [SCall("cleanup_expired", 0, 0) EXCEPT !.count = r.count]
       /\ UNCHANGED <<s_ttl, s_now, s_serial>>
       /\ SFrame

(***************************************************************************)
(* ProgressStore: properties                                               *)
(***************************************************************************)
\* The states of a job that were non-expired when the call in s_ret was made
ValidBefore(job_id) ==
    IF job_id \in s_ret.keys_before
    THEN StatesOf(ValidOf(s_ret.records_before[job_id], s_ret.now, s_ttl))
    ELSE <<>>

\* C13: for a job with n non-expired states and any limit >= 0,
\* get_history(job_id, limit) returns exactly min(limit, n) states, the
\* most recently recorded ones, in the order they were recorded.
C13_HistoryReturnsMostRecentLimit ==
    s_ret.op = "get_history" =>
      LET valid == ValidBefore(s_ret.job_id)
          n == Len(valid)
          k == Min(s_ret.limit, n)
      IN /\ Len(s_ret.history) = k
         /\ s_ret.history = SubSeq(valid, n - k + 1, n)

C16_QueueDepthCountsJobs ==
    s_ret.op = "get_queue_depth" =>
      s_ret.count =
        Cardinality({j \in s_keys :
                       get_latest(j).status \in {"queued", "transcoding"}})

\* The states of a job whose age, when the call in s_ret was made, was not
\* greater than the TTL
NotOlderBefore(job_id) ==
    IF job_id \in s_ret.keys_before
    THEN StatesOf(SelectSeq(s_ret.records_before[job_id],
                            LAMBDA r : s_ret.now - r.timestamp <= s_ttl))
    ELSE <<>>

\* C31: get_latest and get_history return exactly the records whose age
\* at the call is not greater than ttl_seconds: a record whose age equals
\* ttl_seconds is still returned, as ProgressBus.latest does (an entry is
\* expired only when its age exceeds the TTL).  get_history is read with
\* a limit of at least 1.
C31_AgeEqualToTtlIsReturned ==
    LET kept == NotOlderBefore(s_ret.job_id)
        n == Len(kept)
    IN /\ s_ret.op = "get_latest" =>
            s_ret.latest = IF n = 0 THEN NoStoreState ELSE kept[n]
       /\ (s_ret.op = "get_history" /\ s_ret.limit >= 1) =>
            s_ret.history = SubSeq(kept, n - Min(s_ret.limit, n) + 1, n)

(***************************************************************************)
(* RetryPolicy: classify_error and calculate_backoff as functions          *)
(***************************************************************************)
MaxBackoffAttempt == 6    \* attempt arguments of calculate_backoff

ErrorCategories == {"transient_network", "platform_throttle", "auth_failure",
                    "missing_dependency", "io_error", "permanent"}

\* type(exc).__name__ of the errors classified
ExcTypes == {"Exception", "TimeoutError", "PermissionError", "OSError"}

\* What else a message holds, before and after its middle part
Fragments == {
    <<>>,
    <<"T", "i", "m", "e", "o", "u", "t", " ">>,
    <<"a", "u", "t", "h", " ">>,
    <<"n", "o", "t", " ", "f", "o", "u", "n", "d", " ">>,
    <<"f", "f", "m", "p", "e", "g", " ">>,
    <<"n", "o", " ", "s", "u", "c", "h", " ", "f", "i", "l", "e", " ">>,
    <<"d", "i", "s", "k", " ">>,
    <<"x", " ">> }

\* The middle part of a message
Markers == {
    <<>>,
    <<"4", "2", "9">>,
    <<"H", "T", "T", "P", " ", "E", "r", "r", "o", "r", " ", "4", "2", "9">>,
    <<"T", "o", "o", " ", "M", "a", "n", "y", " ", "R", "e", "q", "u", "e", "s", "t", "s">>,
    <<"t", "o", "o", " ", "m", "a", "n", "y", " ", "r", "e", "q", "u", "e", "s", "t", "s">>,
    <<"T", "O", "O", " ", "M", "A", "N", "Y", " ", "R", "E", "Q", "U", "E", "S", "T", "S">> }

\* The messages classified: str(exc)
Messages == {pre \o mid \o post :
               pre \in Fragments, mid \in Markers, post \in Fragments}

FNoCall == [fn |-> None, type |-> None, msg |-> <<>>, attempt |-> 0,
            category |-> None, value |-> 0]

FUnused == f_ret = FNoCall

\* classify_error(exc), applied once to an error
FClassifyError(type, msg) ==
    /\ f_ret = FNoCall
    /\ f_ret' = [FNoCall EXCEPT
                   !.fn = "classify_error", !.type = type, !.msg = msg,
                   !.category = classify_error([type |-> type, msg |-> msg])]
    /\ FFrame

\* calculate_backoff(attempt, category), applied once
FCalculateBackoff(attempt, category) ==
    /\ f_ret = FNoCall
    /\ f_ret' = [FNoCall EXCEPT
                   !.fn = "calculate_backoff", !.attempt = attempt,
                   !.category = category,
                   !.value = calculate_backoff(attempt, category,
                                               r_base_delay, r_max_delay)]
    /\ FFrame

(***************************************************************************)
(* RetryPolicy functions: properties                                       *)
(***************************************************************************)
\* The delay before the cap: base_delay * 2^(n-1) * m, m = 2 for a throttle
Uncapped(attempt, category) ==
    r_base_delay * (2 ^ (attempt - 1))
      * (IF category = "platform_throttle" THEN 2 ELSE 1)

\* calculate_backoff of the policy for another attempt or category
BackoffOf(attempt, category) ==
    calculate_backoff(attempt, category, r_base_delay, r_max_delay)

C19_ThrottleMessagesAreThrottle ==
    (/\ f_ret.fn = "classify_error"
     /\ \/ Contains(lower(f_ret.msg), <<"4", "2", "9">>)
        \/ Contains(lower(f_ret.msg),
                    <<"t", "o", "o", " ", "m", "a", "n", "y", " ",
                      "r", "e", "q", "u", "e", "s", "t", "s">>))
        => f_ret.category = "platform_throttle"

\* C29: classify_error returns missing_dependency only for errors whose
\* message contains both "not found" and "ffmpeg"; a message with
\* "not found" and no "ffmpeg" is not classified missing_dependency.
C29_MissingDependencyNeedsFfmpeg ==
    (/\ f_ret.fn = "classify_error"
     /\ f_ret.category = "missing_dependency")
        => /\ Contains(lower(f_ret.msg), S_not_found)
           /\ Contains(lower(f_ret.msg), S_ffmpeg)

(***************************************************************************)
(* ProgressStore called from several threads.  The store takes no lock,    *)
(* so the statements of record() and cleanup_expired() running in          *)
(* different threads interleave; a step is one statement.                  *)
(***************************************************************************)
NumRecorders == 2         \* threads calling record()
MaxRaceRecords == 2       \* record() calls made by them

Recorders == 1..NumRecorders

XConstructed ==
    /\ x_rpc = [t \in Recorders |-> "idle"]
    /\ x_rjob = [t \in Recorders |-> 0]
    /\ x_calls = 0
    /\ x_recorded = {}
    /\ x_order = <<>>
    /\ x_pc = "idle"
    /\ x_now = 0
    /\ x_size = 0
    /\ x_pos = 0
    /\ x_job = 0
    /\ x_valid = <<>>
    /\ x_delete = <<>>

XInit == XConstructed
XUnused == XConstructed

XSweepUnchanged ==
    UNCHANGED <<x_pc, x_now, x_size, x_pos, x_job, x_valid, x_delete>>
XRecordUnchanged == UNCHANGED <<x_rpc, x_rjob, x_calls, x_recorded>>

\* record(state), `if job_id not in self._records:`
XRecordTest(t, job_id) ==
    /\ x_rpc[t] = "idle"
    /\ x_calls < MaxRaceRecords
    /\ x_calls' = x_calls + 1
    /\ x_rjob' = [x_rjob EXCEPT ![t] = job_id]
    /\ x_rpc' = [x_rpc EXCEPT ![t] =
                   IF job_id \notin s_keys THEN "insert" ELSE "append"]
    /\ UNCHANGED <<x_recorded, x_order>>
    /\ XSweepUnchanged
    /\ UNCHANGED svars
    /\ XFrame

\* record(state), `self._records[job_id] = []`: a list the key has by now
\* is replaced.
XRecordInsert(t) ==
    /\ x_rpc[t] = "insert"
    /\ s_keys' = s_keys \cup {x_rjob[t]}
    /\ s_records' = [s_records EXCEPT ![x_rjob[t]] = <<>>]
    /\ x_order' = IF x_rjob[t] \in s_keys THEN x_order
                  ELSE Append(x_order, x_rjob[t])
    /\ x_rpc' = [x_rpc EXCEPT ![t] = "append"]
    /\ UNCHANGED <<x_rjob, x_calls, x_recorded>>
    /\ XSweepUnchanged
    /\ UNCHANGED <<s_ttl, s_now, s_serial, s_ret>>
    /\ XFrame

\* record(state), `record = ProgressRecord(state=state)` and
\* `self._records[job_id].append(record)`: a KeyError when the key has
\* been deleted.  The percent of the state numbers the calls.
XRecordAppend(t) ==
    /\ x_rpc[t] = "append"
    /\ LET state == [job_id |-> x_rjob[t], status |-> "downloading",
                     percent |-> s_serial + 1]
           record == [state |-> state, timestamp |-> s_now]
       IN /\ x_recorded' = x_recorded \cup {record}
          /\ s_records' = IF x_rjob[t] \in s_keys
                          THEN [s_records EXCEPT ![x_rjob[t]] = Append(@, record)]
                          ELSE s_records
    /\ s_serial' = s_serial + 1
    /\ x_rpc' = [x_rpc EXCEPT ![t] = "idle"]
    /\ x_rjob' = [x_rjob EXCEPT ![t] = 0]
    /\ UNCHANGED <<x_calls, x_order>>
    /\ XSweepUnchanged
    /\ UNCHANGED <<s_ttl, s_now, s_keys, s_ret>>
    /\ XFrame

\* cleanup_expired() up to the start of its first loop: `now`, `expiry`,
\* `jobs_to_delete = []` and the iterator of self._records.items().
XSweepBegin ==
    /\ x_pc = "idle"
    /\ x_pc' = "loop"
    /\ x_now' = s_now
    /\ x_size' = Len(x_order)
    /\ x_pos' = 0
    /\ x_delete' = <<>>
    /\ UNCHANGED <<x_job, x_valid, x_order>>
    /\ XRecordUnchanged
    /\ UNCHANGED svars
    /\ XFrame

\* The for statement takes the next item and `valid_records = [...]` is
\* computed from the job's list.  The iterator raises RuntimeError when
\* the dict has changed size since it was made, which ends the call; at
\* the end of the dict the second loop starts.
XSweepNext ==
    /\ x_pc = "loop"
    /\ IF Len(x_order) # x_size
       THEN /\ x_pc' = "idle"
            /\ UNCHANGED <<x_pos, x_job, x_valid>>
       ELSE IF x_pos < x_size
       THEN /\ x_pc' = "filtered"
            /\ x_pos' = x_pos + 1
            /\ x_job' = x_order[x_pos + 1]
            /\ x_valid' = ValidOf(s_records[x_order[x_pos + 1]], x_now, s_ttl)
       ELSE /\ x_pc' = "delete"
            /\ UNCHANGED <<x_pos, x_job, x_valid>>
    /\ UNCHANGED <<x_now, x_size, x_delete, x_order>>
    /\ XRecordUnchanged
    /\ UNCHANGED svars
    /\ XFrame

\* `if not valid_records: jobs_to_delete.append(job_id)`, `else:
\* self._records[job_id] = valid_records` (the count the call returns is
\* not kept).
XSweepKeep ==
    /\ x_pc = "filtered"
    /\ IF x_valid = <<>>
       THEN /\ x_delete' = Append(x_delete, x_job)
            /\ UNCHANGED s_records
       ELSE /\ s_records' = [s_records EXCEPT ![x_job] = x_valid]
            /\ UNCHANGED x_delete
    /\ x_pc' = "loop"
    /\ UNCHANGED <<x_now, x_size, x_pos, x_job, x_valid, x_order>>
    /\ XRecordUnchanged
    /\ UNCHANGED <<s_ttl, s_now, s_keys, s_serial, s_ret>>
    /\ XFrame

\* `for job_id in jobs_to_delete: del self._records[job_id]`, one pass,
\* and the return after the last.
XSweepDelete ==
    /\ x_pc = "delete"
    /\ IF x_delete = <<>>
       THEN /\ x_pc' = "idle"
            /\ UNCHANGED <<x_delete, x_order, s_keys, s_records>>
       ELSE /\ s_keys' = s_keys \ {Head(x_delete)}
            /\ s_records' = [s_records EXCEPT ![Head(x_delete)] = <<>>]
            /\ x_order' = SeqRemove(x_order, Head(x_delete))
            /\ x_delete' = Tail(x_delete)
            /\ UNCHANGED x_pc
    /\ UNCHANGED <<x_now, x_size, x_pos, x_job, x_valid>>
    /\ XRecordUnchanged
    /\ UNCHANGED <<s_ttl, s_now, s_serial, s_ret>>
    /\ XFrame

(***************************************************************************)
(* ProgressStore called from several threads: properties                   *)
(***************************************************************************)
\* C26: access to the store's job map is serialized, so the operations
\* are atomic with respect to each other: a state passed to record()
\* while cleanup_expired() or another record() runs is not lost; once the
\* calls have returned it is among the job's states that get_history
\* returns, for as long as it is not expired.
C26_ConcurrentRecordNotLost ==
    (x_pc = "idle" /\ \A t \in Recorders : x_rpc[t] = "idle")
        => \A r \in x_recorded :
              IsValid(s_now, r.timestamp, s_ttl)
                 => \E i \in 1..Len(_get_valid_records(r.state.job_id)) :
                       _get_valid_records(r.state.job_id)[i] = r

(***************************************************************************)
(* DownloadService.download_with_retry: one call for one job, on the       *)
(* service's own RetryPolicy, publishing to a ProgressBus whose            *)
(* subscribers return or raise.                                            *)
(***************************************************************************)
DownloadMaxAttempts == 3      \* RetryPolicy(max_attempts=3, ...)
DownloadBaseDelaySeconds == 1 \* RetryPolicy(..., base_delay_seconds=1.0)
InitialPercent == 10          \* download_youtube / download_social: 10.0
RetryPercent == 5             \* on_retry: max(job.progress_percent, 5.0)
CompletedPercent == 100       \* "completed", 100.0

\* The errors of the download backend, and the error of a subscriber that
\* publish() lets through.
DownloadExceptions ==
    Exceptions \o <<[type |-> "ValueError",
                     msg |-> <<"s", "u", "b", "s", "c", "r", "i", "b", "e", "r">>]>>
SubscriberErrorId == Len(DownloadExceptions)
DownloadExcIds == {1, 3, 9}
DownloadJobId == CHOOSE j \in Jobs : \A other \in Jobs : j <= other

\* An Optional[str] remediation: none, a suggested action, str(exc), or
\* "Error: " followed by str(exc).
NoRemediation == [kind |-> None, text |-> None, exc |-> 0]
ActionText(action) == [kind |-> "action", text |-> action, exc |-> 0]
MessageText(e) == [kind |-> "message", text |-> None, exc |-> e]
ErrorText(e) == [kind |-> "error", text |-> None, exc |-> e]

\* RetryPolicy.remediation_message() of the service's policy
remediation_message(last_error) ==
    IF last_error = 0 THEN NoRemediation
    ELSE LET action == _suggest_action(
                           classify_error(DownloadExceptions[last_error]))
         IN IF action # None THEN ActionText(action) ELSE ErrorText(last_error)

\* on_retry: `remedy.action or remedy.message`
RetryRemediation(remedy) ==
    IF remedy.action # None THEN ActionText(remedy.action)
    ELSE MessageText(remedy.message)

\* on_retry: `remedy.retry_after_seconds or 1`
Countdown(retry_after_seconds) ==
    IF retry_after_seconds # 0 THEN retry_after_seconds ELSE 1

\* A ProgressState as _publish_progress builds it.  An Optional[int] is
\* the empty set for None and {n} for n.
ProgressStateOf(status, percent, retry_after, attempts_left, remediation) ==
    [status |-> status, percent |-> percent,
     retry_after_seconds |-> retry_after,
     attempts_remaining |-> attempts_left,
     remediation |-> remediation]

NoDownloadResult == [kind |-> None, exc |-> 0, code |-> None,
                     remediation |-> NoRemediation]

GConstructed ==
    /\ g_pc = "idle"
    /\ g_attempt = 0
    /\ g_attempt_count = 0
    /\ g_last_error = 0
    /\ g_exc = 0
    /\ g_remedy = NoRemedy
    /\ g_progress = 0
    /\ g_retry_count = 0
    /\ g_published = <<>>
    /\ g_work_published = FALSE
    /\ g_failures = 0
    /\ g_succeeded = FALSE
    /\ g_result = NoDownloadResult

GInit == GConstructed
GUnused == GConstructed

\* _publish_progress(job, status, message, percent, ...): the job's
\* percent is raised to `percent`, the state built and handed to
\* ProgressBus.publish, which clamps and caches it.
GPublishes(status, percent, retry_after, attempts_left, remediation) ==
    LET progress == Max(g_progress, percent)
        state == ProgressStateOf(status, progress, retry_after,
                                 attempts_left, remediation)
        cached == [job_id |-> DownloadJobId,
                   percent |-> clamp_percent(progress)]
        entry == [state |-> cached, timestamp |-> b_now]
    IN /\ g_progress' = progress
       /\ g_published' = Append(g_published,
                                [state |-> state, attempts_started |-> g_attempt])
       /\ b_store' = _evict_expired([b_store EXCEPT ![DownloadJobId] = entry],
                                    b_now, b_ttl)
       /\ b_lastpub' = [b_lastpub EXCEPT ![DownloadJobId] = entry]
       /\ b_pubs' = b_pubs + 1
       /\ b_latest' = NoLatest
       /\ b_snapshot' = NoSnapshot
       /\ UNCHANGED <<b_ttl, b_now, b_subscribers, ppc, p_state, p_listeners,
                      p_snapshot, p_delivered>>

GPublishesNothing == UNCHANGED <<g_progress, g_published, bvars>>

\* The top of the policy's loop body: `self._attempt_count = attempt`,
\* and do_download() is awaited.
GBeginAttempt(attempt) ==
    /\ g_attempt' = attempt
    /\ g_attempt_count' = SetAttemptCount(g_attempt_count, attempt)
    /\ g_work_published' = FALSE
    /\ g_pc' = "work"

\* The except clause of execute_with_retry for error e of attempt
\* g_attempt: on the last attempt the error leaves execute_with_retry and
\* is caught by download_with_retry; otherwise the remedy is built and
\* on_retry called.
GAttemptFailed(e) ==
    /\ g_last_error' = e
    /\ g_failures' = g_failures + 1
    /\ IF IsLastAttempt(g_attempt, DownloadMaxAttempts)
       THEN /\ g_exc' = e
            /\ g_pc' = "except"
            /\ UNCHANGED g_remedy
       ELSE LET category == classify_error(DownloadExceptions[e])
                backoff == calculate_backoff(
                               g_attempt, category,
                               DownloadBaseDelaySeconds * TicksPerSecond,
                               DefaultMaxDelaySeconds * TicksPerSecond)
            IN /\ g_remedy' =
                     [category |-> category,
                      message |-> e,
                      retry_after_seconds |-> IntSeconds(backoff),
                      attempts_remaining |->
                          attempts_remaining(DownloadMaxAttempts,
                                             g_attempt_count) - 1,
                      action |-> _suggest_action(category)]
               /\ g_pc' = "on_retry"
               /\ UNCHANGED g_exc

\* download_with_retry(job, url) is called: the policy's first attempt.
GStart ==
    /\ g_pc = "idle"
    /\ GBeginAttempt(1)
    /\ GPublishesNothing
    /\ UNCHANGED <<g_last_error, g_exc, g_remedy, g_retry_count, g_failures,
                   g_succeeded, g_result>>
    /\ GFrame

\* The download in progress publishes its first progress state, as
\* download_youtube and download_social do.  When a subscriber raises,
\* publish() raises and the attempt fails with that error.
GWorkPublishes(subscribers_return) ==
    /\ g_pc = "work"
    /\ ~g_work_published
    /\ GPublishes("downloading", InitialPercent, {}, {}, NoRemediation)
    /\ IF subscribers_return
       THEN /\ g_work_published' = TRUE
            /\ UNCHANGED <<g_pc, g_last_error, g_failures, g_exc, g_remedy>>
       ELSE /\ GAttemptFailed(SubscriberErrorId)
            /\ UNCHANGED g_work_published
    /\ UNCHANGED <<g_attempt, g_attempt_count, g_retry_count, g_succeeded,
                   g_result>>
    /\ GFrame

\* The download returns its DownloadResult: execute_with_retry returns it
\* and `job.retry_count = max(0, attempt_count - 1)`.
GWorkReturns ==
    /\ g_pc = "work"
    /\ g_succeeded' = TRUE
    /\ g_retry_count' = Max(0, g_attempt_count - 1)
    /\ g_pc' = "completed"
    /\ GPublishesNothing
    /\ UNCHANGED <<g_attempt, g_attempt_count, g_last_error, g_exc, g_remedy,
                   g_work_published, g_failures, g_result>>
    /\ GFrame

\* The download raises e.
GWorkFails(e) ==
    /\ g_pc = "work"
    /\ GAttemptFailed(e)
    /\ GPublishesNothing
    /\ UNCHANGED <<g_attempt, g_attempt_count, g_retry_count,
                   g_work_published, g_succeeded, g_result>>
    /\ GFrame

\* on_retry(remedy): the retry state is published, then the policy
\* sleeps.  When a subscriber raises, the error leaves on_retry and
\* execute_with_retry and is caught by download_with_retry.
GOnRetry(subscribers_return) ==
    /\ g_pc = "on_retry"
    /\ g_retry_count' = Max(g_retry_count, g_attempt_count)
    /\ GPublishes("downloading", RetryPercent,
                  {Countdown(g_remedy.retry_after_seconds)},
                  {Max(0, g_remedy.attempts_remaining)},
                  RetryRemediation(g_remedy))
    /\ IF subscribers_return
       THEN /\ g_pc' = "sleep"
            /\ UNCHANGED g_exc
       ELSE /\ g_pc' = "except"
            /\ g_exc' = SubscriberErrorId
    /\ UNCHANGED <<g_attempt, g_attempt_count, g_last_error, g_remedy,
                   g_work_published, g_failures, g_succeeded, g_result>>
    /\ GFrame

\* asyncio.sleep(backoff) ends: the next attempt.
GSleepDone ==
    /\ g_pc = "sleep"
    /\ GBeginAttempt(g_attempt + 1)
    /\ GPublishesNothing
    /\ UNCHANGED <<g_last_error, g_exc, g_remedy, g_retry_count, g_failures,
                   g_succeeded, g_result>>
    /\ GFrame

\* The "completed" state is published and the result returned.  When a
\* subscriber raises, the error is caught by the except clause of
\* download_with_retry, inside whose try the publish is.
GPublishCompleted(subscribers_return) ==
    /\ g_pc = "completed"
    /\ GPublishes("completed", CompletedPercent, {}, {}, NoRemediation)
    /\ IF subscribers_return
       THEN /\ g_pc' = "returned"
            /\ g_result' = [NoDownloadResult EXCEPT !.kind = "result"]
            /\ UNCHANGED g_exc
       ELSE /\ g_pc' = "except"
            /\ g_exc' = SubscriberErrorId
            /\ UNCHANGED g_result
    /\ UNCHANGED <<g_attempt, g_attempt_count, g_last_error, g_remedy,
                   g_retry_count, g_work_published, g_failures, g_succeeded>>
    /\ GFrame

\* `except Exception as exc`: the DownloadError is built, the "failed"
\* state published and the result with the error returned.  When a
\* subscriber raises, the error leaves download_with_retry.
GPublishFailed(subscribers_return) ==
    /\ g_pc = "except"
    /\ g_retry_count' = g_attempt_count
    /\ LET remediation == remediation_message(g_last_error)
       IN /\ GPublishes("failed", g_progress, {}, {}, remediation)
          /\ IF subscribers_return
             THEN /\ g_pc' = "returned"
                  /\ g_result' =
                        [kind |-> "error", exc |-> g_exc,
                         code |-> classify_error(DownloadExceptions[g_exc]),
                         remediation |-> remediation]
             ELSE /\ g_pc' = "raised"
                  /\ g_result' = [NoDownloadResult EXCEPT
                                    !.kind = "raised",
                                    !.exc = SubscriberErrorId]
    /\ UNCHANGED <<g_attempt, g_attempt_count, g_last_error, g_exc, g_remedy,
                   g_work_published, g_failures, g_succeeded>>
    /\ GFrame

(***************************************************************************)
(* DownloadService: properties                                             *)
(***************************************************************************)
\* The state published last
LastPublished == g_published[Len(g_published)].state

\* C22: download_with_retry never raises on download failure: when all
\* max_attempts attempts fail it returns a DownloadResult whose error is
\* that of the final attempt, with the classified category of that error
\* as code and a remediation that is not none, after publishing a state
\* with status failed that carries the same remediation.
C22_FailureIsReturnedNotRaised ==
    /\ g_failures >= 1 => g_pc # "raised"
    /\ (g_failures = DownloadMaxAttempts /\ g_pc \in {"returned", "raised"})
          => /\ g_pc = "returned"
             /\ g_result.kind = "error"
             /\ g_result.exc = g_last_error
             /\ g_result.code =
                   classify_error(DownloadExceptions[g_last_error])
             /\ g_result.remediation # NoRemediation
             /\ LastPublished.status = "failed"
             /\ LastPublished.remediation = g_result.remediation

\* The retry states published while `attempts` attempts had been started
RetryStatesOf(attempts) ==
    {i \in 1..Len(g_published) :
        /\ g_published[i].attempts_started = attempts
        /\ g_published[i].state.status = "downloading"
        /\ g_published[i].state.retry_after_seconds # {}}

\* C30: each failed attempt that is not the final one causes exactly one
\* state with status downloading, retry_after_seconds >= 1 and
\* attempts_remaining >= 0 to be published before the next attempt
\* starts; and the last state the call publishes is terminal, completed
\* with percent 100 when an attempt succeeded and failed when the attempts
\* are exhausted, with no state published after a terminal one.
C30_RetryStatesThenOneTerminalState ==
    /\ \A k \in 1..DownloadMaxAttempts :
          (k < g_attempt \/ (k = g_attempt /\ g_pc = "sleep"))
             => /\ Cardinality(RetryStatesOf(k)) = 1
                /\ \A i \in RetryStatesOf(k) :
                      /\ \A n \in g_published[i].state.retry_after_seconds :
                            n >= 1
                      /\ g_published[i].state.attempts_remaining # {}
                      /\ \A n \in g_published[i].state.attempts_remaining :
                            n >= 0
    /\ g_pc \in {"returned", "raised"}
          => /\ g_published # <<>>
             /\ g_succeeded
                   => /\ LastPublished.status = "completed"
                      /\ LastPublished.percent = CompletedPercent
             /\ (~g_succeeded /\ g_failures = DownloadMaxAttempts)
                   => LastPublished.status = "failed"
             /\ \A i \in 1..(Len(g_published) - 1) :
                   g_published[i].state.status \notin {"completed", "failed"}

(***************************************************************************)
(* ProgressRenderer, subscribed to a ProgressBus                           *)
(***************************************************************************)
MaxRendered == 3          \* publish() calls rendered

RenderJobs == {1, 2}
\* renderer.render among the callbacks
RendererCallback == CHOOSE cb \in Callbacks : \A other \in Callbacks : cb <= other
RenderPercents == {-5, 5, 10, 50, 150}

\* render(): `if state.percent < self._last_percent: state.percent =
\* self._last_percent else: self._last_percent = state.percent`; the
\* percent the line is then formatted from (to one decimal).
Buggy_RenderedPercent(percent, last_percent) == percent
RenderedPercent(percent, last_percent) ==
    IF percent < last_percent THEN last_percent ELSE percent

\* ProgressRenderer(): _last_percent = 0.0
NConstructed ==
    /\ n_last_percent = 0
    /\ n_displayed = <<>>
    /\ n_published = <<>>

NInit == NConstructed
NUnused == NConstructed

\* One thread calls publish(state) on a bus whose only subscriber is
\* renderer.render: the percent is clamped, the state cached, and
\* render(state) is called with the cached state object, whose percent it
\* may overwrite before it writes the line.
NPublish(job_id, percent) ==
    /\ Len(n_published) < MaxRendered
    /\ b_subscribers = <<RendererCallback>>
    /\ \A p \in Publishers : ppc[p] = "idle"
    /\ n_published' = Append(n_published,
                             [job_id |-> job_id, percent |-> percent])
    /\ LET clamped == clamp_percent(percent)
           shown == RenderedPercent(clamped, n_last_percent)
           state == [job_id |-> job_id, percent |-> shown]
           entry == [state |-> state, timestamp |-> b_now]
       IN /\ n_last_percent' = shown
          /\ n_displayed' = Append(n_displayed, state)
          /\ b_store' = _evict_expired([b_store EXCEPT ![job_id] = entry],
                                       b_now, b_ttl)
          /\ b_lastpub' = [b_lastpub EXCEPT ![job_id] =
                             [state |-> [job_id |-> job_id,
                                         percent |-> clamped],
                              timestamp |-> b_now]]
    /\ b_pubs' = b_pubs + 1
    /\ b_latest' = NoLatest
    /\ b_snapshot' = NoSnapshot
    /\ UNCHANGED <<b_ttl, b_now, b_subscribers, ppc, p_state, p_listeners,
                   p_snapshot, p_delivered>>
    /\ NFrame

(***************************************************************************)
(* ProgressRenderer: properties                                            *)
(***************************************************************************)
\* The largest percent, as the bus clamps it, among the first i states
\* published that are of job j
MaxPublished(j, i) ==
    LET ps == {clamp_percent(n_published[k].percent) :
                 k \in {m \in 1..i : n_published[m].job_id = j}}
    IN CHOOSE x \in ps : \A y \in ps : x >= y

\* C24: for a sequence of states published for one job and rendered by a
\* subscribed ProgressRenderer, the percent displayed for each update is
\* the maximum percent published so far for the job (as clamped by the
\* bus), so the displayed percents never decrease.
C24_DisplayedIsMaxSoFar ==
    /\ Len(n_displayed) = Len(n_published)
    /\ \A i \in 1..Len(n_displayed) :
          /\ n_displayed[i].job_id = n_published[i].job_id
          /\ n_displayed[i].percent = MaxPublished(n_published[i].job_id, i)
          /\ i > 1 => n_displayed[i].percent >= n_displayed[i - 1].percent

\* C24 witness: 10, 5, 50 were published for the job and 10, 10, 50
\* displayed.
C24_Witness ==
    /\ n_published = <<[job_id |-> 1, percent |-> 10],
                       [job_id |-> 1, percent |-> 5],
                       [job_id |-> 1, percent |-> 50]>>
    /\ n_displayed = <<[job_id |-> 1, percent |-> 10],
                       [job_id |-> 1, percent |-> 10],
                       [job_id |-> 1, percent |-> 50]>>

\* C36: a subscriber cannot change what the bus has cached: after
\* publish(s) the cached state of the job, which latest(s.job_id) returns
\* and the subscribers called after it are handed, has the clamped percent
\* that was published, also when a ProgressRenderer is subscribed.
C36_SubscriberCannotChangeCache ==
    \A j \in Jobs :
        b_store[j] # NoEntry =>
            /\ b_lastpub[j] # NoEntry
            /\ b_store[j].state.percent = b_lastpub[j].state.percent

\* C39: when one renderer renders the updates of several jobs
\* interleaved, the percent shown for an update of a job is the maximum
\* percent published so far for that job (as clamped by the bus),
\* whatever was published for the other jobs.
C39_DisplayedDependsOnOwnJobOnly ==
    \A i \in 1..Len(n_published) :
        LET j == n_published[i].job_id
        IN i <= Len(n_displayed) =>
              n_displayed[i] = [job_id |-> j, percent |-> MaxPublished(j, i)]

(***************************************************************************)
(* ProgressBus._lock: publish() on several threads, with callbacks that    *)
(* call the bus themselves.  threading.Lock is not reentrant: a thread     *)
(* that asks for a lock it holds waits like any other.  Each `with         *)
(* self._lock:` block is one step, taken when the lock is free.            *)
(***************************************************************************)
NoBusCall == [op |-> None, job_id |-> 0, cb |-> 0]

\* The bus calls a callback may make while it runs (NoBusCall: it makes none).
NestedCalls ==
    {NoBusCall}
    \cup {[op |-> "publish", job_id |-> j, cb |-> 0] : j \in Jobs}
    \cup {[op |-> "latest", job_id |-> j, cb |-> 0] : j \in Jobs}
    \cup {[op |-> "snapshot", job_id |-> 0, cb |-> 0]}
    \cup {[op |-> "subscribe", job_id |-> 0, cb |-> c] : c \in Callbacks}
    \cup {[op |-> "unsubscribe", job_id |-> 0, cb |-> c] : c \in Callbacks}

LockThreads == {1, 2}     \* two of the publishing threads
LockJob == 1              \* the job whose progress they publish
LockCallback == 1         \* the callback subscribed
\* The calls of the callback, on that job and that callback
LockCalls ==
    {call \in NestedCalls : call.job_id \in {0, LockJob}
                            /\ call.cb \in {0, LockCallback}}

\* Who holds the lock when publish() goes on to `for callback in
\* listeners`: the `with self._lock:` block has been left, nobody.
Buggy_LockHolderDuringFanout(t) == t
LockHolderDuringFanout(t) == 0

KConstructed ==
    /\ k_lock = 0
    /\ k_call = [t \in Publishers |-> NoBusCall]
    /\ k_seen = [t \in Publishers |-> NoLatest]
    /\ k_overlap = FALSE

KInit == KConstructed
KUnused == KConstructed

\* Some other thread's callback is running.
CallbackRunningBeside(t) ==
    \E u \in Publishers : u # t /\ ppc[u] = "in_callback"

\* The locked block of publish(state): store, evict, copy the subscriber
\* list.  The percent of the state numbers the publishes.
KStore(t, job_id) ==
    LET state == [job_id |-> job_id, percent |-> clamp_percent(b_pubs + 1)]
        entry == [state |-> state, timestamp |-> b_now]
    IN /\ b_store' = _evict_expired([b_store EXCEPT ![job_id] = entry],
                                    b_now, b_ttl)
       /\ b_lastpub' = [b_lastpub EXCEPT ![job_id] = entry]
       /\ b_pubs' = b_pubs + 1
       /\ k_overlap' = (k_overlap \/ CallbackRunningBeside(t))

\* publish(state) by thread t, up to the end of the locked block.
KPublish(t, job_id) ==
    /\ ppc[t] = "idle"
    /\ k_lock = 0
    /\ b_pubs < MaxPublishes
    /\ KStore(t, job_id)
    /\ p_state' = [p_state EXCEPT ![t] =
                     IF b_subscribers = <<>> THEN NoState
                     ELSE [job_id |-> job_id,
                           percent |-> clamp_percent(b_pubs + 1)]]
    /\ p_listeners' = [p_listeners EXCEPT ![t] = b_subscribers]
    /\ p_snapshot' = [p_snapshot EXCEPT ![t] = b_subscribers]
    /\ p_delivered' = [p_delivered EXCEPT ![t] = <<>>]
    /\ ppc' = [ppc EXCEPT ![t] =
                 IF b_subscribers = <<>> THEN "returned" ELSE "delivering"]
    /\ k_lock' = IF b_subscribers = <<>> THEN 0
                 ELSE LockHolderDuringFanout(t)
    /\ b_latest' = NoLatest
    /\ b_snapshot' = NoSnapshot
    /\ UNCHANGED <<b_ttl, b_now, b_subscribers, k_call, k_seen>>
    /\ KFrame

\* `callback(state)`: the next callback of the thread's list starts to
\* run; `call` is the bus call it is going to make.
KInvoke(t, call) ==
    /\ ppc[t] = "delivering"
    /\ call.op = "publish" => b_pubs < MaxPublishes
    /\ call.op = "subscribe" => Len(b_subscribers) < MaxSubscribers
    /\ ppc' = [ppc EXCEPT ![t] = "in_callback"]
    /\ k_call' = [k_call EXCEPT ![t] = call]
    /\ k_seen' = [k_seen EXCEPT ![t] = NoLatest]
    /\ p_delivered' = [p_delivered EXCEPT ![t] = Append(@, Head(p_listeners[t]))]
    /\ b_latest' = NoLatest
    /\ b_snapshot' = NoSnapshot
    /\ UNCHANGED <<b_ttl, b_now, b_subscribers, b_store, p_state,
                   p_listeners, p_snapshot, b_lastpub, b_pubs, k_lock,
                   k_overlap>>
    /\ KFrame

\* The running callback of thread t makes its bus call: it takes the lock
\* when the lock is free, runs the locked block and leaves it.  A publish
\* made here hands its state to callbacks that return at once.
KNested(t) ==
    LET call == k_call[t]
    IN /\ ppc[t] = "in_callback"
       /\ call.op # None
       /\ k_lock = 0
       /\ k_call' = [k_call EXCEPT ![t] = NoBusCall]
       /\ CASE call.op = "publish" ->
                 /\ b_pubs < MaxPublishes
                 /\ KStore(t, call.job_id)
                 /\ UNCHANGED <<b_subscribers, k_seen>>
            [] call.op = "latest" ->
                 LET entry == b_store[call.job_id]
                     expired == entry # NoEntry
                                /\ IsExpired(b_now, entry.timestamp, b_ttl)
                 IN /\ b_store' = IF expired
                                  THEN [b_store EXCEPT ![call.job_id] = NoEntry]
                                  ELSE b_store
                    /\ k_seen' = [k_seen EXCEPT ![t] =
                                    [job_id |-> call.job_id,
                                     state |-> IF expired THEN NoState
                                               ELSE entry.state]]
                    /\ UNCHANGED <<b_subscribers, b_lastpub, b_pubs, k_overlap>>
            [] call.op = "snapshot" ->
                 /\ b_store' = _evict_expired(b_store, b_now, b_ttl)
                 /\ UNCHANGED <<b_subscribers, b_lastpub, b_pubs, k_seen,
                                k_overlap>>
            [] call.op = "subscribe" ->
                 /\ b_subscribers' = subscribe(b_subscribers, call.cb)
                 /\ UNCHANGED <<b_store, b_lastpub, b_pubs, k_seen, k_overlap>>
            [] call.op = "unsubscribe" ->
                 /\ b_subscribers' = unsubscribe(b_subscribers, call.cb)
                 /\ UNCHANGED <<b_store, b_lastpub, b_pubs, k_seen, k_overlap>>
       /\ b_latest' = NoLatest
       /\ b_snapshot' = NoSnapshot
       /\ UNCHANGED <<b_ttl, b_now, ppc, p_state, p_listeners, p_snapshot,
                      p_delivered, k_lock>>
       /\ KFrame

\* The running callback returns; after the last one publish() returns,
\* and a lock still held by the thread is released.
KReturn(t) ==
    /\ ppc[t] = "in_callback"
    /\ k_call[t] = NoBusCall
    /\ LET rest == Tail(p_listeners[t])
       IN /\ p_listeners' = [p_listeners EXCEPT ![t] = rest]
          /\ ppc' = [ppc EXCEPT ![t] =
                       IF rest = <<>> THEN "returned" ELSE "delivering"]
          /\ p_state' = [p_state EXCEPT ![t] =
                           IF rest = <<>> THEN NoState ELSE @]
          /\ k_lock' = IF rest = <<>> /\ k_lock = t THEN 0 ELSE k_lock
    /\ k_seen' = [k_seen EXCEPT ![t] = NoLatest]
    /\ b_latest' = NoLatest
    /\ b_snapshot' = NoSnapshot
    /\ UNCHANGED <<b_ttl, b_now, b_subscribers, b_store, p_snapshot,
                   p_delivered, b_lastpub, b_pubs, k_call, k_overlap>>
    /\ KFrame

\* subscribe(callback) by a thread that is not inside publish()
KSubscribe(cb) ==
    /\ k_lock = 0
    /\ BSubscribe(cb)

InitQueue == QInit /\ RUnused /\ BUnused /\ TInit /\ DUnused /\ SUnused /\ FUnused /\ NUnused /\ XUnused /\ GUnused /\ KUnused /\ EUnused
NextQueue ==
    \/ \E c \in Callers, f \in Forms : QEnter(c, f)
    \/ \E c \in Callers : QResume(c)
    \/ \E c \in Callers, o \in WorkOutcomes : QWorkEnds(c, o)
    \/ \E c \in Callers : QCancelRequest(c)
    \/ \E c \in Callers : QCancelDeliver(c)
    \/ \E c \in Callers : QReturn(c)
SpecQueue == InitQueue /\ [][NextQueue]_vars

\* One execute_with_retry call at a time on the policy.
InitRetry == QUnused /\ RInit /\ BUnused /\ TInit /\ DUnused /\ SUnused /\ FUnused /\ NUnused /\ XUnused /\ GUnused /\ KUnused /\ EUnused
NextRetry ==
    \/ \E cb \in BOOLEAN : RStart(1, cb)
    \/ \E v \in WorkValues : RWorkSucceeds(1, v)
    \/ \E e \in ExcIds : RWorkFails(1, e)
    \/ ROnRetryDone(1)
    \/ RSleepDone(1)
    \/ RCancel(1)
    \/ RFinish(1)
SpecRetry == InitRetry /\ [][NextRetry]_vars

\* Tasks of one event loop calling execute_with_retry on one policy
\* object, as the jobs of a service do: the calls interleave at their
\* awaits.  The work fails with a rate limit or with an unclassified
\* error.
SharedExcIds == {3, 9}
InitRetryShared == QUnused /\ RUnused /\ BUnused /\ TInit /\ DUnused /\ SUnused /\ FUnused /\ NUnused /\ XUnused /\ GUnused /\ KUnused /\ EUnused
NextRetryShared ==
    \/ \E k \in RCalls, cb \in BOOLEAN : RStart(k, cb)
    \/ \E k \in RCalls, v \in WorkValues : RWorkSucceeds(k, v)
    \/ \E k \in RCalls, e \in SharedExcIds : RWorkFails(k, e)
    \/ \E k \in RCalls : ROnRetryDone(k)
    \/ \E k \in RCalls : RSleepDone(k)
    \/ \E k \in RCalls : RFinish(k)
SpecRetryShared == InitRetryShared /\ [][NextRetryShared]_vars

\* The bus as a cache: a thread publishes and others poll while the clock
\* runs; no callback is subscribed.
InitBusCache == QUnused /\ RUnused /\ BInit /\ TInit /\ DUnused /\ SUnused /\ FUnused /\ NUnused /\ XUnused /\ GUnused /\ KUnused /\ EUnused
NextBusCache ==
    \/ \E j \in Jobs, pct \in CachePercents : BPublish(1, j, pct)
    \/ BPublishEnd(1)
    \/ BTick
    \/ \E j \in Jobs : BLatest(j)
    \/ BSnapshot
SpecBusCache == InitBusCache /\ [][NextBusCache]_vars

\* The bus under out-of-range input: a thread publishes percents below,
\* within and above the range to a callback that returns (subscribed any
\* number of times), and the cache is read; the clock stands still.
InitBusClamp == QUnused /\ RUnused /\ BUnused /\ TInit /\ DUnused /\ SUnused /\ FUnused /\ NUnused /\ XUnused /\ GUnused /\ KUnused /\ EUnused
NextBusClamp ==
    \/ \E j \in Jobs, pct \in RawPercents : BPublish(1, j, pct)
    \/ BDeliver(1, [kind |-> "return", cb |-> 0])
    \/ BPublishEnd(1)
    \/ BSubscribe(1)
    \/ \E j \in Jobs : BLatest(j)
    \/ BSnapshot
SpecBusClamp == InitBusClamp /\ [][NextBusClamp]_vars

\* The bus as a fan-out: threads publish one job's progress, subscribe and
\* unsubscribe, and the callbacks are delivered to; the clock stands still.
InitBusFanout == QUnused /\ RUnused /\ BUnused /\ TInit /\ DUnused /\ SUnused /\ FUnused /\ NUnused /\ XUnused /\ GUnused /\ KUnused /\ EUnused
NextBusFanout ==
    \/ \E p \in Publishers : BPublish(p, 1, 50)
    \/ \E p \in Publishers, does \in CallbackBehaviours : BDeliver(p, does)
    \/ \E p \in Publishers : BPublishEnd(p)
    \/ \E cb \in Callbacks : BSubscribe(cb)
    \/ \E cb \in Callbacks : BUnsubscribe(cb)
SpecBusFanout == InitBusFanout /\ [][NextBusFanout]_vars

\* The REST layer: a background thread per submitted job, all sharing the
\* module's one TranscodeQueue.
InitRest == QConstructed(RestMaxWorkers) /\ RUnused /\ BUnused /\ TInit /\ DUnused /\ SUnused /\ FUnused /\ NUnused /\ XUnused /\ GUnused /\ KUnused /\ EUnused
NextRest ==
    \/ \E j \in RestJobs, fmt \in Formats : TSubmit(j, fmt)
    \/ \E j \in RestJobs : TDownloadFails(j)
    \/ \E j \in RestJobs, is_mp4 \in BOOLEAN : TDownloadDone(j, is_mp4)
    \/ \E j \in RestJobs, big \in BOOLEAN, out \in BOOLEAN : TFfmpegOk(j, big, out)
    \/ \E j \in RestJobs : TFfmpegFails(j)
    \/ \E j \in RestJobs : TBackoffDone(j)
    \/ \E j \in RestJobs, ok \in BOOLEAN, out \in BOOLEAN : TFallbackEnds(j, ok, out)
SpecRest == InitRest /\ [][NextRest]_vars

\* The output root: jobs come and go and space is asked for.
InitDisk == QUnused /\ RUnused /\ BUnused /\ TInit /\ DInit /\ SUnused /\ FUnused /\ NUnused /\ XUnused /\ GUnused /\ KUnused /\ EUnused
NextDisk ==
    \/ \E n \in DirNames, size \in DirSizes, mtime \in Mtimes :
          DPrepareJob(n, size, mtime)
    \/ \E n \in DirNames : DCleanupJob(n)
    \/ \E req \in RequiredBytes, minfree \in MinFreeBytes :
          DEnsureFreeSpace(req, minfree)
SpecDisk == InitDisk /\ [][NextDisk]_vars

\* The progress store: states are recorded and the history is read.
InitStoreHistory ==
    QUnused /\ RUnused /\ BUnused /\ TInit /\ DUnused /\ SInit /\ FUnused /\ NUnused /\ XUnused /\ GUnused /\ KUnused /\ EUnused
NextStoreHistory ==
    \/ STick
    \/ \E j \in StoreJobs : SRecord(j, "downloading", MaxHistoryRecords)
    \/ \E j \in StoreJobs : SGetLatest(j)
    \/ \E j \in StoreJobs, limit \in Limits : SGetHistory(j, limit)
SpecStoreHistory == InitStoreHistory /\ [][NextStoreHistory]_vars

\* The progress store: states are recorded, counted and swept.
InitStoreSweep ==
    QUnused /\ RUnused /\ BUnused /\ TInit /\ DUnused /\ SInit /\ FUnused /\ NUnused /\ XUnused /\ GUnused /\ KUnused /\ EUnused
NextStoreSweep ==
    \/ STick
    \/ \E j \in StoreJobs, st \in StoreStatuses :
          SRecord(j, st, MaxSweepRecords)
    \/ SGetQueueDepth
    \/ SCleanupExpired
SpecStoreSweep == InitStoreSweep /\ [][NextStoreSweep]_vars

\* A policy, as the repository builds them, classifies errors and computes
\* backoffs.
InitPolicyFunctions ==
    QUnused /\ RInit /\ BUnused /\ TInit /\ DUnused /\ SUnused /\ FUnused /\ NUnused /\ XUnused /\ GUnused /\ KUnused /\ EUnused
NextPolicyFunctions ==
    \/ \E type \in ExcTypes, msg \in Messages : FClassifyError(type, msg)
    \/ \E attempt \in 1..MaxBackoffAttempt, category \in ErrorCategories :
          FCalculateBackoff(attempt, category)
SpecPolicyFunctions == InitPolicyFunctions /\ [][NextPolicyFunctions]_vars

\* A fresh ProgressRenderer is subscribed to the bus
\* (progress_bus.subscribe(renderer.render)) and one thread publishes one
\* job's progress.
InitRenderOneJob ==
    QUnused /\ RUnused /\ BUnused /\ TInit /\ DUnused /\ SUnused /\ FUnused /\ NInit /\ XUnused /\ GUnused /\ KUnused /\ EUnused
NextRenderOneJob ==
    \/ BSubscribe(RendererCallback)
    \/ \E percent \in RenderPercents : NPublish(1, percent)
SpecRenderOneJob == InitRenderOneJob /\ [][NextRenderOneJob]_vars

\* Threads of one process recording states while another sweeps the
\* store, and the clock.
InitStoreThreads ==
    QUnused /\ RUnused /\ BUnused /\ TInit /\ DUnused /\ SInit /\ FUnused /\ NUnused /\ XInit /\ GUnused /\ KUnused /\ EUnused
NextStoreThreads ==
    \/ STick
    \/ \E t \in Recorders, j \in StoreJobs : XRecordTest(t, j)
    \/ \E t \in Recorders : XRecordInsert(t)
    \/ \E t \in Recorders : XRecordAppend(t)
    \/ XSweepBegin
    \/ XSweepNext
    \/ XSweepKeep
    \/ XSweepDelete
SpecStoreThreads == InitStoreThreads /\ [][NextStoreThreads]_vars

\* One download_with_retry call; the subscribers of the bus return or
\* raise.
InitDownload ==
    QUnused /\ RUnused /\ BUnused /\ TInit /\ DUnused /\ SUnused /\ FUnused /\ NUnused /\ XUnused /\ GInit /\ KUnused /\ EUnused
NextDownload ==
    \/ GStart
    \/ \E ok \in BOOLEAN : GWorkPublishes(ok)
    \/ GWorkReturns
    \/ \E e \in DownloadExcIds : GWorkFails(e)
    \/ \E ok \in BOOLEAN : GOnRetry(ok)
    \/ GSleepDone
    \/ \E ok \in BOOLEAN : GPublishCompleted(ok)
    \/ \E ok \in BOOLEAN : GPublishFailed(ok)
SpecDownload == InitDownload /\ [][NextDownload]_vars

\* The same call on a bus whose subscribers all return.
NextDownloadQuiet ==
    \/ GStart
    \/ GWorkPublishes(TRUE)
    \/ GWorkReturns
    \/ \E e \in DownloadExcIds : GWorkFails(e)
    \/ GOnRetry(TRUE)
    \/ GSleepDone
    \/ GPublishCompleted(TRUE)
    \/ GPublishFailed(TRUE)
SpecDownloadQuiet == InitDownload /\ [][NextDownloadQuiet]_vars

\* The bus lock: threads publish to callbacks that call the bus while
\* they run; the clock stands still.
InitBusLock == QUnused /\ RUnused /\ BUnused /\ TInit /\ DUnused /\ SUnused /\ FUnused /\ NUnused /\ XUnused /\ GUnused /\ KInit /\ EUnused
NextBusLock ==
    \/ \E t \in LockThreads : KPublish(t, LockJob)
    \/ \E t \in LockThreads, call \in LockCalls : KInvoke(t, call)
    \/ \E t \in LockThreads : KNested(t)
    \/ \E t \in LockThreads : KReturn(t)
    \/ \E t \in LockThreads : BPublishEnd(t)
    \/ KSubscribe(LockCallback)
SpecBusLock == InitBusLock /\ [][NextBusLock]_vars

\* The output root when deletions can fail: jobs are prepared, and
\* ensure_free_space runs its loop pass by pass.
InitDiskSteps == QUnused /\ RUnused /\ BUnused /\ TInit /\ DInit /\ SUnused /\ FUnused /\ NUnused /\ XUnused /\ GUnused /\ KUnused /\ EInit
NextDiskSteps ==
    \/ \E n \in DirNames, size \in DirSizes, mtime \in Mtimes :
          EPrepareJob(n, size, mtime)
    \/ \E req \in RequiredBytes : EBegin(req, 0)
    \/ ELoopExit
    \/ ELoopFail
    \/ \E outcome \in RmtreeOutcomes : ELoopEvict(outcome)
    \/ EReturned
SpecDiskSteps == InitDiskSteps /\ [][NextDiskSteps]_vars

\* A fresh ProgressRenderer is subscribed to the bus and the progress of
\* several jobs is published, interleaved.
NextRenderJobs ==
    \/ BSubscribe(RendererCallback)
    \/ \E j \in RenderJobs, percent \in RenderPercents : NPublish(j, percent)
SpecRenderJobs == InitRenderOneJob /\ [][NextRenderJobs]_vars

\* Tasks of one event loop calling one queue for ever: every unit of work
\* ends, and the loop runs every task it has scheduled.
NextQueueFair ==
    \/ \E c \in FairCallers : QEnter(c, "run")
    \/ \E c \in FairCallers : QEnterAgain(c, "worker_slot")
    \/ \E c \in FairCallers : QResume(c)
    \/ \E c \in FairCallers : QWorkEnds(c, Returned("result"))
    \/ \E c \in FairCallers : QWorkEnds(c, Raised("ffmpeg_failed"))
    \/ \E c \in FairCallers : QCancelEarly(c)
    \/ \E c \in FairCallers : QCancelDeliver(c)
    \/ \E c \in FairCallers : QReturn(c)
\* The loop runs the task at the head of its ready queue.
LoopRunsReadyTask == \E c \in FairCallers : QResume(c) \/ QCancelDeliver(c)
\* The work of caller c ends.
WorkOfCallerEnds(c) ==
    QWorkEnds(c, Returned("result")) \/ QWorkEnds(c, Raised("ffmpeg_failed"))
SpecQueueFair ==
    /\ InitQueue
    /\ [][NextQueueFair]_vars
    /\ WF_vars(LoopRunsReadyTask)
    /\ \A c \in FairCallers : WF_vars(WorkOfCallerEnds(c))

Spec == SpecQueue
====
